---- MODULE Spec2Model ----
(***************************************************************************)
(* NotionSync: the Canvas -> Notion assignment sync engine of              *)
(* canvas_notion_calendar_db_v1.py and the wrappers that drive it.         *)
(*                                                                         *)
(* Specifications                                                          *)
(*   SpecSync    add_to_notion (pre-fetch, per-item upsert) run twice on    *)
(*               the same assignment list against one Notion database.      *)
(*   SpecSchema  ensure_database_properties called twice on one schema.     *)
(*   SpecFetch   get_canvas_assignments: the course workers, the join and   *)
(*               the de-duplication.                                        *)
(*   SpecCycle   the sync cycles of the three wrappers (SyncThread.run,     *)
(*               SyncService.sync_assignments, run_background_sync).        *)
(*   SpecPlan    schedule_blocks of time_blocker.py: filter, scoring and    *)
(*               the greedy placement of study blocks.                      *)
(*   SpecWeb     the POST /sync route of app.py and the run_sync threads    *)
(*               it starts.                                                 *)
(***************************************************************************)
EXTENDS Integers, Sequences, FiniteSets, TLC

VARIABLES
    \* ---- add_to_notion ----
    assignments,         \* the list handed to add_to_notion (same for every run)
    pages,               \* the Notion database: page id = index, [title, date, body]
    pc,                  \* position of add_to_notion: idle/prefetch/loop/returned/raised
    run,                 \* number of add_to_notion calls started so far
    is_first_sync,       \* argument of the current call
    status_callback,     \* TRUE when a status callback was supplied
    existing_pages_map,  \* title -> page id, built by the pre-fetch
    next_cursor,         \* cursor of the paginated query (0 = None)
    idx,                 \* enumerate(assignments, start=1)
    log,                 \* HTTP calls and status messages of the current call
    history,             \* logs of the finished calls
    failures,            \* failing HTTP calls so far (bounded by MaxFailures)
    \* ---- ensure_database_properties ----
    schema,              \* the Notion database schema: ordered fields [name, type]
    ensure_calls,        \* the finished calls of ensure_database_properties
    \* ---- get_canvas_assignments ----
    courses,             \* the course list Canvas returns
    selected_course_ids, \* argument: the course filter
    fetch_pc,            \* idle/workers/returned/raised
    task,                \* per submitted course: queued/running/finished/crashed
    bucket_no,           \* per task: the bucket it fetches next
    assignments_for_course, \* per task: what it collected
    collected,           \* the futures as_completed has yielded, in order
    all_assignments_raw, \* the aggregate list of the joining thread
    final_assignments,   \* the returned list
    fetch_failures,      \* failing Canvas requests so far (bounded by MaxFetchFailures)
    sync_status,         \* what the status callback has written: [thread, msg] in order
    \* ---- a sync cycle of a wrapper ----
    wrapper,             \* gui (SyncThread), web (SyncService), daemon (run_background_sync)
    cycle_pc,            \* idle/started/ensured/fetched/done
    cycle_log,           \* the core calls of the current cycle
    cycle_result,        \* none/success/failed
    cycle_first_sync_complete, \* the flag as loaded when the cycle started
    first_sync_complete, \* the persisted flag
    cycles,              \* cycles started so far
    \* ---- schedule_blocks ----
    plan_assignments,    \* argument: the assignments to plan
    windows_by_weekday,  \* weekday (Monday = 0) -> windows <<start, end>> in minutes
    daily_max_minutes,   \* argument (0 = None)
    include_short_quizzes, \* argument
    today,               \* date.today(), a proleptic Gregorian ordinal
    plan_pc,             \* idle/filtered/blocks/returned
    filtered,            \* the surviving (due_dt, a) pairs, sorted
    cur,                 \* position of the loop over filtered
    n_blocks,            \* blocks the current assignment gets
    block_i,             \* i of "for i in range(n_blocks)"
    scheduled,           \* the result list
    scheduled_on_day,    \* day -> intervals, kept as [day, s, e] in insertion order
    \* ---- the web app's POST /sync ----
    sync_status_running, \* sync_status['running'] of app.py
    request_pc,          \* request -> new/checked/rejected/started
    thread_pc            \* request -> none/started/active/finished: its run_sync thread

syncVars == <<assignments, pages, pc, run, is_first_sync, status_callback,
              existing_pages_map, next_cursor, idx, log, history, failures>>

schemaVars == <<schema, ensure_calls>>

fetchVars == <<courses, selected_course_ids, fetch_pc, task, bucket_no,
               assignments_for_course, collected, all_assignments_raw, final_assignments,
               fetch_failures, sync_status>>

cycleVars == <<wrapper, cycle_pc, cycle_log, cycle_result, cycle_first_sync_complete,
               first_sync_complete, cycles>>

planVars == <<plan_assignments, windows_by_weekday, daily_max_minutes, include_short_quizzes,
              today, plan_pc, filtered, cur, n_blocks, block_i, scheduled, scheduled_on_day>>

webVars == <<sync_status_running, request_pc, thread_pc>>

vars == <<syncVars, schemaVars, fetchVars, cycleVars, planVars, webVars>>

----------------------------------------------------------------------------
\* Bounds of the model
MaxAssignments == 2
MaxFailures == 1
QueryPageSize == 1
MaxFields == 3
MaxCourses == 2
MaxCycles == 2
MaxFetchFailures == 2
MaxPlanAssignments == 2
MaxRequests == 3

\* The two successive calls of add_to_notion a claim about repeated runs needs
Runs == {1, 2}

----------------------------------------------------------------------------
\* Values

None == "None"

\* Assignment names; "" is a falsy title
Names == {"", "A", "B"}

\* datetime.date.today() as a day number, and timedelta(weeks=2) in days
Today == 20
TwoWeeks == 14

\* ISO timestamps an assignment can carry, and the day each parses to.
\* "bad" is a string fromisoformat rejects.
ParseDay(s) ==
    CASE s = "d05" -> 5
      [] s = "d06" -> 6
      [] s = "d20" -> 20
      [] OTHER -> -1

IsIso(s) == s \in {"d05", "d06", "d20"}

\* re.sub(r'<[^>]+>', '', raw).strip() on the descriptions of the model;
\* a missing description is "" (assignment.get("description", "") or "")
StripHtml(d) ==
    CASE d = "<p>d</p>" -> "d"
      [] d = "<br>" -> ""
      [] OTHER -> ""

\* truncate_text: texts of the model are far below max_length = 2000
truncate_text(text) == IF text = "" THEN "" ELSE text

Assignment(n, due, lock, created, d) ==
    [name |-> n, due_at |-> due, lock_at |-> lock, created_at |-> created,
     description |-> d]

\* The assignments the input lists are drawn from
AssignmentValues ==
    { Assignment("A", None, "d05", "d20", "<p>d</p>"),  \* old, through the fallback chain
      Assignment("A", "d06", "d05", "d05", "<br>"),     \* exactly two weeks ago
      Assignment("B", "bad", "d05", "d05", "<p>d</p>"), \* malformed due_at shadows lock_at
      Assignment("B", None, None, None, None),          \* no date, no description
      Assignment("", "d20", None, None, "<p>d</p>") }   \* empty name

RECURSIVE SeqsUpTo(_, _)
SeqsUpTo(S, n) ==
    IF n = 0 THEN { <<>> }
    ELSE LET shorter == SeqsUpTo(S, n - 1)
         IN shorter \cup { Append(q, x) : q \in { t \in shorter : Len(t) = n - 1 }, x \in S }

Page(t, d, b) == [title |-> t, date |-> d, body |-> b]

\* Databases a first call can find: empty, one page, two pages; "u" is a block
\* the user wrote into the page body.
InitialDatabases ==
    { <<>>,
      << Page("A", "d20", <<"u">>) >>,
      << Page("B", "d20", <<>>), Page("A", "d05", <<"u">>) >> }

----------------------------------------------------------------------------
\* Log entries: HTTP calls (always) and status messages (with a callback)


Say(cb, text, i) == IF cb THEN << [op |-> "status", i |-> i, page |-> 0, ok |-> TRUE, text |-> text] >> ELSE <<>>
Http(op, i, page, ok) == << [op |-> op, i |-> i, page |-> page, ok |-> ok, text |-> ""] >>

WriteOps == {"patch_page", "create_page", "get_blocks", "delete_block", "patch_blocks"}
ContentOps == {"get_blocks", "delete_block", "patch_blocks"}

----------------------------------------------------------------------------
\* add_to_notion: the pure parts

Min(a, b) == IF a <= b THEN a ELSE b

EmptyMap == <<>>

\* assignment.get("due_at") or assignment.get("lock_at") or assignment.get("created_at")
date_to_use_str(a) ==
    IF a.due_at # None THEN a.due_at
    ELSE IF a.lock_at # None THEN a.lock_at
    ELSE a.created_at

\* fromisoformat(...).date().isoformat(), None when there is no string or it
\* does not parse
due_date_iso(a) ==
    LET s == date_to_use_str(a)
    IN IF s # None /\ IsIso(s) THEN s ELSE None

two_weeks_ago == Today - TwoWeeks

description_content(a) == truncate_text(StripHtml(a.description))

\* Mutant: the gate compares with <= (two weeks ago itself counts as stale)
SkipsStale_Inclusive(a, first) ==
    /\ ~first
    /\ due_date_iso(a) # None
    /\ ParseDay(due_date_iso(a)) <= two_weeks_ago

\* The staleness gate of a matched assignment: not first sync, a date, and
\* assignment_date < two_weeks_ago
SkipsStale(a, first) ==
    /\ ~first
    /\ due_date_iso(a) # None
    /\ ParseDay(due_date_iso(a)) < two_weeks_ago

\* properties: "Name" and the date entry, which is always in the payload and
\* is None (clearing the value) when no date was resolved. The optional
\* Course and URL entries do not influence control flow and are left out.
Properties(a) == [Name |-> a.name, date |-> due_date_iso(a)]

\* Notion applying a page-properties PATCH
PatchedPage(p, props) == [p EXCEPT !.title = props.Name, !.date = props.date]

\* Notion creating a page: children holds one paragraph when there is a description
CreatedPage(props, content) ==
    [title |-> props.Name, date |-> props.date,
     body |-> IF content # "" THEN <<content>> ELSE <<>>]

\* One response of the database query: pages first..last are folded into the
\* title -> id map; a page with an empty title is left out, a later page with
\* the same title overwrites an earlier one.
RECURSIVE FoldResults(_, _, _, _)
FoldResults(m, db, i, last) ==
    IF i > last THEN m
    ELSE FoldResults(IF db[i].title # "" THEN (db[i].title :> i) @@ m ELSE m,
                     db, i + 1, last)

----------------------------------------------------------------------------
\* _update_page_content(page_id, new_content): get the child blocks, delete
\* each, add one paragraph. g is the outcome of the GET, d[k] of the k-th
\* DELETE, p of the PATCH. Result: the new body, the calls made, the failures.

GetOutcomes == {"ok", "404", "error"}
DelOutcomes == {"ok", "notok", "raise"}
WriteOutcomes == {"ok", "notok", "raise"}

\* Deleting results[k..]: [body, log, nfail, raised]
RECURSIVE DeleteBlocks(_, _, _, _, _, _, _)
DeleteBlocks(results, k, d, kept, i, page, cb) ==
    IF k > Len(results) THEN [body |-> kept, log |-> <<>>, nfail |-> 0, raised |-> FALSE]
    ELSE IF d[k] = "raise"
    THEN [body |-> kept \o SubSeq(results, k, Len(results)),
          log |-> Http("delete_block", i, page, FALSE)
                    \o Say(cb, "Failed to update content", i),
          nfail |-> 1, raised |-> TRUE]
    ELSE LET rest == DeleteBlocks(results, k + 1, d,
                                  IF d[k] = "ok" THEN kept ELSE Append(kept, results[k]),
                                  i, page, cb)
         IN [rest EXCEPT
               !.log = Http("delete_block", i, page, d[k] = "ok")
                         \o (IF d[k] = "ok" THEN <<>> ELSE Say(cb, "Could not delete block", i))
                         \o @,
               !.nfail = @ + (IF d[k] = "ok" THEN 0 ELSE 1)]

update_page_content(body, new_content, i, page, cb, g, d, p) ==
    IF g = "error"
    THEN [body |-> body,
          log |-> Http("get_blocks", i, page, FALSE) \o Say(cb, "Failed to update content", i),
          nfail |-> 1]
    ELSE
      LET results == IF g = "ok" THEN body ELSE <<>>
          hidden == IF g = "ok" THEN <<>> ELSE body
          del == DeleteBlocks(results, 1, d, <<>>, i, page, cb)
          getlog == Http("get_blocks", i, page, g = "ok")
          gfail == IF g = "ok" THEN 0 ELSE 1
      IN IF del.raised \/ new_content = ""
         THEN [body |-> hidden \o del.body, log |-> getlog \o del.log,
               nfail |-> gfail + del.nfail]
         ELSE IF p = "ok"
         THEN [body |-> Append(hidden \o del.body, new_content),
               log |-> getlog \o del.log \o Http("patch_blocks", i, page, TRUE),
               nfail |-> gfail + del.nfail]
         ELSE [body |-> hidden \o del.body,
               log |-> getlog \o del.log \o Http("patch_blocks", i, page, FALSE)
                         \o Say(cb, "Failed to update content", i),
               nfail |-> gfail + del.nfail + 1]

----------------------------------------------------------------------------
\* add_to_notion: one iteration of the loop over the assignments.
\* w is the outcome of the page write (PATCH or POST), g, d, p those of the
\* content calls. Result: the database, the calls and messages, the failures.

CreateOutcomes == WriteOutcomes \cup {"notok_nojson"}

\* Mutant: the body is replaced on every sync, not only on the first
UpdateExisting_AlwaysContent(a, i, first, cb, db, id, w, g, d, p) ==
    LET upc == update_page_content(db[id].body, description_content(a), i, id, cb,
                                   "404", <<>>, "ok")
    IN [pages |-> [db EXCEPT ![id] = [PatchedPage(@, Properties(a)) EXCEPT !.body = upc.body]],
        log |-> Http("patch_page", i, id, w = "ok") \o upc.log,
        nfail |-> IF w = "ok" THEN 0 ELSE 1, exc |-> FALSE]

\* The body of the try block for a matched assignment that is not skipped.
\* exc: an exception leaves the try block.
UpdateExisting(a, i, first, cb, db, id, w, g, d, p) ==
    LET head == Say(cb, "Updating existing assignment", i)
    IN IF w = "ok"
       THEN LET db1 == [db EXCEPT ![id] = PatchedPage(@, Properties(a))]
                okmsg == Http("patch_page", i, id, TRUE) \o Say(cb, "Updated properties", i)
            IN IF first
               THEN LET upc == update_page_content(db1[id].body, description_content(a),
                                                   i, id, cb, g, d, p)
                    IN [pages |-> [db1 EXCEPT ![id].body = upc.body],
                        log |-> head \o okmsg \o Say(cb, "First sync: Updating content", i)
                                  \o upc.log \o Say(cb, "Updated content", i),
                        nfail |-> upc.nfail, exc |-> FALSE]
               ELSE [pages |-> db1, log |-> head \o okmsg, nfail |-> 0, exc |-> FALSE]
       ELSE IF w = "raise"
       THEN [pages |-> db, log |-> head \o Http("patch_page", i, id, FALSE),
             nfail |-> 1, exc |-> TRUE]
       ELSE [pages |-> db,
             log |-> head \o Http("patch_page", i, id, FALSE) \o Say(cb, "Failed to update", i),
             nfail |-> 1, exc |-> FALSE]

\* The body of the try block for an unmatched assignment. A failed response
\* whose body is not JSON makes response.json() raise when there is a callback.
CreateNew(a, i, cb, db, w) ==
    IF w = "ok"
    THEN [pages |-> Append(db, CreatedPage(Properties(a), description_content(a))),
          log |-> Http("create_page", i, Len(db) + 1, TRUE) \o Say(cb, "Added", i),
          nfail |-> 0, exc |-> FALSE]
    ELSE IF w = "notok"
    THEN [pages |-> db,
          log |-> Http("create_page", i, 0, FALSE) \o Say(cb, "Error adding", i),
          nfail |-> 1, exc |-> FALSE]
    ELSE [pages |-> db, log |-> Http("create_page", i, 0, FALSE),
          nfail |-> 1, exc |-> (w = "raise" \/ cb)]

\* Mutant: the "continue" after the update is missing, so a matched assignment
\* is also created
TryBody_NoContinue(a, i, first, cb, db, map, w, g, d, p) ==
    IF a.name \in DOMAIN map /\ ~SkipsStale(a, first)
    THEN LET u == UpdateExisting(a, i, first, cb, db, map[a.name], w, g, d, p)
             c == CreateNew(a, i, cb, u.pages, "ok")
         IN [pages |-> c.pages, log |-> Say(cb, "Processing", i) \o u.log \o c.log,
             nfail |-> u.nfail, exc |-> u.exc]
    ELSE IF a.name \in DOMAIN map
    THEN [pages |-> db, log |-> Say(cb, "Processing", i) \o Say(cb, "Skipping update", i),
          nfail |-> 0, exc |-> FALSE]
    ELSE LET c == CreateNew(a, i, cb, db, w)
         IN [c EXCEPT !.log = Say(cb, "Processing", i) \o @]

TryBody(a, i, first, cb, db, map, w, g, d, p) ==
    LET r == IF a.name \in DOMAIN map
             THEN IF SkipsStale(a, first)
                  THEN [pages |-> db, log |-> Say(cb, "Skipping update", i),
                        nfail |-> 0, exc |-> FALSE]
                  ELSE UpdateExisting(a, i, first, cb, db, map[a.name], w, g, d, p)
             ELSE CreateNew(a, i, cb, db, w)
    IN [r EXCEPT !.log = Say(cb, "Processing", i) \o @]

\* Mutant: no handler around the loop body, the exception leaves add_to_notion
ExceptHandler_Reraise(r, i, cb) == r

\* except Exception as e: the exception is reported and the loop goes on
ExceptHandler(r, i, cb) ==
    IF r.exc THEN [r EXCEPT !.log = @ \o Say(cb, "Unhandled error", i), !.exc = FALSE]
    ELSE r

Iteration(a, i, first, cb, db, map, w, g, d, p) ==
    ExceptHandler(TryBody(a, i, first, cb, db, map, w, g, d, p), i, cb)

----------------------------------------------------------------------------
\* The components a specification does not exercise stay as constructed

IdleSync ==
    /\ assignments = <<>>
    /\ pages = <<>>
    /\ pc = "idle"
    /\ run = 0
    /\ is_first_sync = FALSE
    /\ existing_pages_map = EmptyMap
    /\ next_cursor = 0
    /\ idx = 0
    /\ log = <<>>
    /\ history = <<>>
    /\ failures = 0

IdleSchema ==
    /\ schema = <<>>
    /\ ensure_calls = <<>>

IdleFetch ==
    /\ courses = <<>>
    /\ selected_course_ids = <<>>
    /\ fetch_pc = "idle"
    /\ task = <<>>
    /\ bucket_no = <<>>
    /\ assignments_for_course = <<>>
    /\ collected = <<>>
    /\ all_assignments_raw = <<>>
    /\ final_assignments = <<>>
    /\ fetch_failures = 0
    /\ sync_status = <<>>

IdleCycle ==
    /\ wrapper = "gui"
    /\ cycle_pc = "idle"
    /\ cycle_log = <<>>
    /\ cycle_result = "none"
    /\ cycle_first_sync_complete = FALSE
    /\ first_sync_complete = FALSE
    /\ cycles = 0

IdlePlan ==
    /\ plan_assignments = <<>>
    /\ windows_by_weekday = <<>>
    /\ daily_max_minutes = 0
    /\ include_short_quizzes = FALSE
    /\ today = 0
    /\ plan_pc = "idle"
    /\ filtered = <<>>
    /\ cur = 0
    /\ n_blocks = 0
    /\ block_i = 0
    /\ scheduled = <<>>
    /\ scheduled_on_day = <<>>

\* the POST /sync requests the web app may receive
Requests == 1..MaxRequests

IdleWeb ==
    /\ sync_status_running = FALSE
    /\ request_pc = [r \in Requests |-> "rejected"]
    /\ thread_pc = [r \in Requests |-> "none"]

----------------------------------------------------------------------------
\* add_to_notion: the actions

InitSync ==
    /\ assignments \in SeqsUpTo(AssignmentValues, MaxAssignments)
    /\ pages \in InitialDatabases
    /\ pc = "idle"
    /\ run = 0
    /\ is_first_sync = FALSE
    /\ status_callback \in BOOLEAN
    /\ existing_pages_map = EmptyMap
    /\ next_cursor = 0
    /\ idx = 0
    /\ log = <<>>
    /\ history = <<>>
    /\ failures = 0
    /\ IdleSchema
    /\ IdleFetch
    /\ IdleCycle
    /\ IdlePlan
    /\ IdleWeb

\* A caller calls add_to_notion(..., assignments, status_callback, ..., is_first_sync);
\* the caller passes the same callback (or none) on every call.
\* A second call is made after a first one in which every call succeeded.
AddToNotion(first) ==
    /\ pc \in {"idle", "returned"}
    /\ run + 1 \in Runs
    /\ failures = 0
    /\ run' = run + 1
    /\ is_first_sync' = first
    /\ existing_pages_map' = EmptyMap
    /\ next_cursor' = 0
    /\ idx' = 0
    /\ history' = IF run = 0 THEN history ELSE Append(history, log)
    /\ log' = Say(status_callback, "Fetching existing entries", 0)
    /\ pc' = "prefetch"
    /\ UNCHANGED <<assignments, pages, failures, status_callback,
                   schemaVars, fetchVars, cycleVars, planVars, webVars>>

\* Where the loop stands after the items up to i are done
AfterItem(i) == IF i >= Len(assignments) THEN "returned" ELSE "loop"

\* Mutant: a failed request ends the pagination and the pages collected so
\* far are used as the baseline
PrefetchQuery_Partial ==
    /\ pc = "prefetch"
    /\ \E ok \in BOOLEAN :
         LET first == IF next_cursor = 0 THEN 1 ELSE next_cursor
             last == Min(first + QueryPageSize - 1, Len(pages))
             has_more == ok /\ last < Len(pages)
         IN /\ (~ok => failures < MaxFailures)
            /\ failures' = IF ok THEN failures ELSE failures + 1
            /\ existing_pages_map' = IF ok THEN FoldResults(existing_pages_map, pages, first, last)
                                     ELSE existing_pages_map
            /\ next_cursor' = IF has_more THEN last + 1 ELSE next_cursor
            /\ pc' = IF has_more THEN "prefetch" ELSE AfterItem(0)
            /\ idx' = IF has_more THEN idx ELSE 1
            /\ log' = log \o Http("query_pages", 0, 0, ok)
    /\ UNCHANGED <<assignments, pages, run, is_first_sync, status_callback, history,
                   schemaVars, fetchVars, cycleVars, planVars, webVars>>

\* One request of _get_all_notion_pages_paginated and, after the last one or a
\* failure, the code of add_to_notion up to the loop.
PrefetchQuery ==
    /\ pc = "prefetch"
    /\ \E ok \in BOOLEAN :
         IF ok
         THEN LET first == IF next_cursor = 0 THEN 1 ELSE next_cursor
                  last == Min(first + QueryPageSize - 1, Len(pages))
                  has_more == last < Len(pages)
              IN /\ existing_pages_map' = FoldResults(existing_pages_map, pages, first, last)
                 /\ next_cursor' = IF has_more THEN last + 1 ELSE next_cursor
                 /\ pc' = IF has_more THEN "prefetch" ELSE AfterItem(0)
                 /\ idx' = IF has_more THEN idx ELSE 1
                 /\ log' = log \o Http("query_pages", 0, 0, TRUE)
                               \o (IF has_more THEN <<>>
                                   ELSE Say(status_callback, "Found existing entries", 0))
                 /\ UNCHANGED failures
         ELSE /\ failures < MaxFailures
              /\ failures' = failures + 1
              /\ existing_pages_map' = EmptyMap
              /\ pc' = "raised"
              /\ log' = log \o Http("query_pages", 0, 0, FALSE)
                            \o Say(status_callback, "Error fetching Notion pages", 0)
                            \o Say(status_callback, "Could not pre-fetch Notion pages. Aborting sync.", 0)
              /\ UNCHANGED <<next_cursor, idx>>
    /\ UNCHANGED <<assignments, pages, run, is_first_sync, status_callback, history,
                   schemaVars, fetchVars, cycleVars, planVars, webVars>>

\* The outcomes the environment can give the calls one iteration makes: only
\* the calls the iteration reaches have an outcome to choose.
ItemOutcomes(a, first, db, map) ==
    LET matched == a.name \in DOMAIN map
        writes == ~(matched /\ SkipsStale(a, first))
        content == matched /\ writes /\ first
        nblocks == IF content THEN Len(db[map[a.name]].body) ELSE 0
    IN { o \in [w : IF ~writes THEN {"ok"}
                     ELSE IF matched THEN WriteOutcomes ELSE CreateOutcomes,
                g : IF content THEN GetOutcomes ELSE {"ok"},
                d : [1..nblocks -> DelOutcomes],
                p : IF content THEN {"ok", "notok"} ELSE {"ok"}] :
           \* outcomes of calls that are never made are fixed to "ok"
           /\ (o.w # "ok" => o.g = "ok")
           /\ (o.g # "ok" => \A k \in 1..nblocks : o.d[k] = "ok")
           /\ ((o.w # "ok" \/ o.g = "error" \/ description_content(a) = ""
                 \/ \E k \in 1..nblocks : o.d[k] = "raise") => o.p = "ok")
           /\ \A k \in 1..nblocks :
                (o.w # "ok" \/ \E j \in 1..(k - 1) : o.d[j] = "raise") => o.d[k] = "ok" }

\* One iteration of the for loop, with every call it makes
ProcessItem ==
    /\ pc = "loop"
    /\ idx <= Len(assignments)
    /\ \E o \in ItemOutcomes(assignments[idx], is_first_sync, pages, existing_pages_map) :
         LET r == Iteration(assignments[idx], idx, is_first_sync, status_callback,
                            pages, existing_pages_map, o.w, o.g, o.d, o.p)
         IN /\ failures + r.nfail <= MaxFailures
            /\ pages' = r.pages
            /\ log' = log \o r.log
            /\ failures' = failures + r.nfail
            /\ pc' = IF r.exc THEN "raised" ELSE AfterItem(idx)
            /\ idx' = IF r.exc THEN idx ELSE idx + 1
    /\ UNCHANGED <<assignments, run, is_first_sync, status_callback,
                   existing_pages_map, next_cursor, history,
                   schemaVars, fetchVars, cycleVars, planVars, webVars>>

NextSync ==
    \/ \E first \in BOOLEAN : AddToNotion(first)
    \/ PrefetchQuery
    \/ ProcessItem

SpecSync == InitSync /\ [][NextSync]_vars

----------------------------------------------------------------------------
\* ensure_database_properties

FieldNames == {"Name", "Title", "Course", "URL", "Due Date", "Created"}
FieldTypes == {"title", "date", "rich_text"}

Field(n, t) == [name |-> n, type |-> t]

NamesOf(s) == { s[k].name : k \in 1..Len(s) }

\* A Notion database has distinctly named properties, exactly one of type title
IsSchema(s) ==
    /\ \A j, k \in 1..Len(s) : j # k => s[j].name # s[k].name
    /\ Cardinality({ k \in 1..Len(s) : s[k].type = "title" }) = 1

InitialSchemas ==
    { s \in SeqsUpTo([name : FieldNames, type : FieldTypes], MaxFields) : IsSchema(s) }

\* for name, details in current_properties.items(): the first of a type
RECURSIVE FirstOfType(_, _)
FirstOfType(s, t) ==
    IF s = <<>> THEN None
    ELSE IF Head(s).type = t THEN Head(s).name
    ELSE FirstOfType(Tail(s), t)

\* properties_to_update[key] = value on a dict kept as a list of [key, value]
DictSet(dict, key, value) ==
    IF \E k \in 1..Len(dict) : dict[k].key = key
    THEN [k \in 1..Len(dict) |->
            IF dict[k].key = key THEN [key |-> key, value |-> value] ELSE dict[k]]
    ELSE Append(dict, [key |-> key, value |-> value])

Rename(to) == [kind |-> "name", to |-> to]
OfType(t) == [kind |-> "type", to |-> t]

\* Steps 2-4: the change set and the date property name found or created
title_property_current_name(s) == FirstOfType(s, "title")

NeedsRename(s) ==
    /\ title_property_current_name(s) # None
    /\ title_property_current_name(s) # "Name"

existing_names(s) ==
    IF NeedsRename(s)
    THEN (NamesOf(s) \ {title_property_current_name(s)}) \cup {"Name"}
    ELSE NamesOf(s)

properties_to_update(s) ==
    LET u0 == IF NeedsRename(s)
              THEN DictSet(<<>>, title_property_current_name(s), Rename("Name"))
              ELSE <<>>
        u1 == IF "Course" \notin existing_names(s)
              THEN DictSet(u0, "Course", OfType("rich_text")) ELSE u0
        u2 == IF "URL" \notin existing_names(s)
              THEN DictSet(u1, "URL", OfType("url")) ELSE u1
    IN IF FirstOfType(s, "date") = None
       THEN DictSet(u2, "Due Date", OfType("date")) ELSE u2

\* Mutant: the date property found is forgotten
date_property_name_AlwaysDue(s) == "Due Date"

date_property_name(s) ==
    IF FirstOfType(s, "date") = None THEN "Due Date" ELSE FirstOfType(s, "date")

\* Notion applying one entry of a database PATCH: a rename in place, a type
\* change in place, or a new property at the end. It refuses a rename onto
\* the name of another property and a change of the title property's type.
ApplyEntry(r, e) ==
    LET s == r.schema
        at == { k \in 1..Len(s) : s[k].name = e.key }
    IN IF ~r.ok THEN r
       ELSE IF e.value.kind = "name"
       THEN IF at = {} \/ \E k \in 1..Len(s) : s[k].name = e.value.to /\ k \notin at
            THEN [r EXCEPT !.ok = FALSE]
            ELSE [r EXCEPT !.schema =
                    [k \in 1..Len(s) |-> IF k \in at THEN Field(e.value.to, s[k].type) ELSE s[k]]]
       ELSE IF at = {}
       THEN [r EXCEPT !.schema = Append(s, Field(e.key, e.value.to))]
       ELSE IF \E k \in at : s[k].type = "title"
       THEN [r EXCEPT !.ok = FALSE]
       ELSE [r EXCEPT !.schema =
               [k \in 1..Len(s) |-> IF k \in at THEN Field(s[k].name, e.value.to) ELSE s[k]]]

RECURSIVE ApplyPatch(_, _)
ApplyPatch(r, payload) ==
    IF payload = <<>> THEN r
    ELSE ApplyPatch(ApplyEntry(r, Head(payload)), Tail(payload))

\* The schema a PATCH leaves, and whether Notion accepted it (all or nothing)
NotionPatch(s, payload) ==
    LET r == ApplyPatch([ok |-> TRUE, schema |-> s], payload)
    IN IF r.ok THEN r ELSE [ok |-> FALSE, schema |-> s]

\* except RequestException as e around the PATCH: with a callback the message
\* is built from e.text, which no RequestException has, so an AttributeError
\* leaves the function; without one (False, None) is returned.
PatchFailureRaises(cb) == cb

\* Mutant: the early return for an empty change set is missing
NoChanges_AlwaysPatch(payload) == FALSE

\* if not properties_to_update: return True, date_property_name
NoChanges(payload) == payload = <<>>

\* ensure_database_properties(notion_key, database_id, status_callback) on
\* schema s; get_ok and patch_ok are the outcomes of the two requests.
\* Result: what the caller gets, the PATCH sent, the schema afterwards.
ensure_database_properties(s, cb, get_ok, patch_ok) ==
    LET payload == properties_to_update(s)
        patched == NotionPatch(s, payload)
        base == [schema_before |-> s, cb |-> cb, get_ok |-> get_ok,
                 wrote |-> FALSE, patch_failed |-> FALSE, payload |-> <<>>,
                 raised |-> FALSE, ok |-> FALSE, date |-> None, schema |-> s]
    IN IF ~get_ok THEN base
       ELSE IF NoChanges(payload)
       THEN [base EXCEPT !.ok = TRUE, !.date = date_property_name(s)]
       ELSE IF patch_ok /\ patched.ok
       THEN [base EXCEPT !.wrote = TRUE, !.payload = payload, !.ok = TRUE,
                         !.date = date_property_name(s), !.schema = patched.schema]
       ELSE [base EXCEPT !.wrote = TRUE, !.payload = payload, !.patch_failed = TRUE,
                         !.raised = PatchFailureRaises(cb)]

InitSchema ==
    /\ IdleSync
    /\ IdleFetch
    /\ IdleCycle
    /\ IdlePlan
    /\ IdleWeb
    /\ status_callback \in BOOLEAN
    /\ schema \in InitialSchemas
    /\ ensure_calls = <<>>

\* A caller calls ensure_database_properties
EnsureCall ==
    /\ Len(ensure_calls) + 1 \in Runs
    /\ \E get_ok \in BOOLEAN, patch_ok \in BOOLEAN :
         LET r == ensure_database_properties(schema, status_callback, get_ok, patch_ok)
         IN /\ ensure_calls' = Append(ensure_calls, r)
            /\ schema' = r.schema
    /\ UNCHANGED <<syncVars, fetchVars, cycleVars, planVars, webVars>>

NextSchema == EnsureCall

SpecSchema == InitSchema /\ [][NextSchema]_vars

----------------------------------------------------------------------------
\* get_canvas_assignments

\* ThreadPoolExecutor(max_workers=10)
max_workers == 10

\* Courses of the Canvas course list; the third has no id
CourseValues ==
    { [id |-> "1", name |-> "c1"], [id |-> "2", name |-> "c2"], [id |-> None, name |-> "c0"] }

InitialCourseLists ==
    { cs \in SeqsUpTo(CourseValues, MaxCourses) :
        \A j, k \in 1..Len(cs) : j # k => cs[j] # cs[k] }

\* selected_course_ids: no filter, course 1, a value int() rejects
SelectedValues == { <<>>, <<"1">>, <<"x">> }

IsInt(x) == x \in {"1", "2"}

\* the buckets argument
buckets_to_fetch == <<"past", "upcoming">>

\* What one bucket request can give: a list of assignments (by id), a
\* RequestException, or a body whose iteration raises another exception
BucketResponses ==
    { [kind |-> "ok", ids |-> <<1>>], [kind |-> "ok", ids |-> <<2, 1>>],
      [kind |-> "fail", ids |-> <<>>], [kind |-> "crash", ids |-> <<>>] }

NameOfId(id) == IF id = 1 THEN "A" ELSE "B"

\* assignment['course_name'] = course_name
Stamped(ids, course_name) ==
    [k \in 1..Len(ids) |-> [id |-> ids[k], name |-> NameOfId(ids[k]), course_name |-> course_name]]

\* Lines 85-94: the course filter; any conversion error leaves all courses
FilterCourses(cs, sel) ==
    IF sel = <<>> THEN cs
    ELSE IF (\E k \in 1..Len(sel) : ~IsInt(sel[k])) \/ (\E k \in 1..Len(cs) : ~IsInt(cs[k].id))
    THEN cs
    ELSE LET Keep(c) == c.id \in { sel[k] : k \in 1..Len(sel) }
         IN SelectSeq(cs, Keep)

\* The record final_assignments keeps; the id is not a field of the returned
\* dict and is kept here to name the assignment the record came from.
FinalRecord(a) == [name |-> a.name, course_name |-> a.course_name, id |-> a.id]

\* Mutant: the seen-set is keyed by (id, course), so the same assignment
\* reported by two courses is kept twice
RECURSIVE DedupByCourse(_, _)
DedupByCourse(raw, seen) ==
    IF raw = <<>> THEN <<>>
    ELSE IF <<Head(raw).id, Head(raw).course_name>> \in seen THEN DedupByCourse(Tail(raw), seen)
    ELSE <<FinalRecord(Head(raw))>>
            \o DedupByCourse(Tail(raw), seen \cup {<<Head(raw).id, Head(raw).course_name>>})

Deduplicate_ByCourse(raw) == DedupByCourse(raw, {})

\* Lines 118-131: first record of each id, in the order of all_assignments_raw
RECURSIVE Dedup(_, _)
Dedup(raw, fetched_assignment_ids) ==
    IF raw = <<>> THEN <<>>
    ELSE IF Head(raw).id \in fetched_assignment_ids
    THEN Dedup(Tail(raw), fetched_assignment_ids)
    ELSE <<FinalRecord(Head(raw))>>
            \o Dedup(Tail(raw), fetched_assignment_ids \cup {Head(raw).id})

Deduplicate(raw) == Dedup(raw, {})

InitFetch ==
    /\ IdleSync
    /\ IdleSchema
    /\ IdleCycle
    /\ IdlePlan
    /\ IdleWeb
    /\ status_callback \in BOOLEAN
    /\ courses \in InitialCourseLists
    /\ selected_course_ids \in SelectedValues
    /\ fetch_pc = "idle"
    /\ task = <<>>
    /\ bucket_no = <<>>
    /\ assignments_for_course = <<>>
    /\ collected = <<>>
    /\ all_assignments_raw = <<>>
    /\ final_assignments = <<>>
    /\ fetch_failures = 0
    /\ sync_status = <<>>

fetchFrame == <<syncVars, schemaVars, cycleVars, planVars, webVars>>

\* The thread that called get_canvas_assignments and joins the futures; the
\* pool thread of a course task is named by the task's number
MainThread == 0

\* status_callback(msg) as run_sync.update_status of app.py does it: the
\* message is appended to sync_status['log'] by the calling thread, no lock
update_status(st, cb, thread, msgs) ==
    IF cb THEN st \o [k \in 1..Len(msgs) |-> [thread |-> thread, msg |-> msgs[k]]] ELSE st

\* Mutant: the except clause returns [] whether or not there is a callback
ListFailureOutcome_AlwaysReturn(cb) == "returned"

\* except Exception: with a callback "return []", without one "raise"
ListFailureOutcome(cb) == IF cb THEN "returned" ELSE "raised"

\* The call up to executor.submit: the course list request, the filter, one
\* future per course. A failed request is reported and [] returned when there
\* is a callback, and re-raised when there is none.
GetCanvasAssignments ==
    /\ fetch_pc = "idle"
    /\ \E ok \in BOOLEAN :
         IF ok
         THEN LET cs == FilterCourses(courses, selected_course_ids)
              IN /\ courses' = cs
                 /\ task' = [c \in 1..Len(cs) |-> "queued"]
                 /\ bucket_no' = [c \in 1..Len(cs) |-> 1]
                 /\ assignments_for_course' = [c \in 1..Len(cs) |-> <<>>]
                 /\ fetch_pc' = "workers"
                 /\ sync_status' = update_status(sync_status, status_callback, MainThread,
                                                 <<"Fetching courses", "Found courses">>)
                 /\ UNCHANGED fetch_failures
         ELSE /\ fetch_failures < MaxFetchFailures
              /\ fetch_failures' = fetch_failures + 1
              /\ fetch_pc' = ListFailureOutcome(status_callback)
              /\ sync_status' = update_status(sync_status, status_callback, MainThread,
                                              <<"Fetching courses", "A critical error occurred">>)
              /\ UNCHANGED <<courses, task, bucket_no, assignments_for_course>>
    /\ UNCHANGED <<selected_course_ids, collected, all_assignments_raw, final_assignments,
                   fetchFrame>>

Running == { c \in 1..Len(task) : task[c] = "running" }

\* A pool thread starts _fetch_assignments_for_course(course, ...): a course
\* without id returns [] at once
WorkerStart(c) ==
    /\ fetch_pc = "workers"
    /\ task[c] = "queued"
    /\ Cardinality(Running) < max_workers
    /\ task' = [task EXCEPT ![c] = IF courses[c].id = None THEN "finished" ELSE "running"]
    /\ sync_status' = IF courses[c].id = None THEN sync_status
                      ELSE update_status(sync_status, status_callback, c, <<"Starting fetch">>)
    /\ UNCHANGED <<courses, selected_course_ids, fetch_pc, bucket_no, assignments_for_course,
                   collected, all_assignments_raw, final_assignments, fetch_failures,
                   fetchFrame>>

\* One iteration of the loop over the buckets, and the return after the last
WorkerFetchBucket(c) ==
    /\ fetch_pc = "workers"
    /\ task[c] = "running"
    /\ \E resp \in BucketResponses :
         /\ resp.kind # "ok" => fetch_failures < MaxFetchFailures
         /\ fetch_failures' = IF resp.kind = "ok" THEN fetch_failures ELSE fetch_failures + 1
         /\ assignments_for_course' =
               [assignments_for_course EXCEPT
                  ![c] = IF resp.kind = "ok" THEN @ \o Stamped(resp.ids, courses[c].name) ELSE @]
         /\ task' = [task EXCEPT
                  ![c] = IF resp.kind = "crash" THEN "crashed"
                         ELSE IF bucket_no[c] = Len(buckets_to_fetch) THEN "finished"
                         ELSE "running"]
         /\ sync_status' =
               update_status(sync_status, status_callback, c,
                             (IF resp.kind = "fail" THEN <<"Could not fetch bucket">> ELSE <<>>)
                             \o (IF resp.kind # "crash" /\ bucket_no[c] = Len(buckets_to_fetch)
                                 THEN <<"Finished fetch">> ELSE <<>>))
    /\ bucket_no' = [bucket_no EXCEPT ![c] = @ + 1]
    /\ UNCHANGED <<courses, selected_course_ids, fetch_pc, collected, all_assignments_raw,
                   final_assignments, fetchFrame>>

InCollected(c) == \E k \in 1..Len(collected) : collected[k] = c

\* for future in as_completed(...): the joining thread takes a completed
\* future and extends the aggregate list, or reports the task's exception
Collect(c) ==
    /\ fetch_pc = "workers"
    /\ task[c] \in {"finished", "crashed"}
    /\ ~InCollected(c)
    /\ collected' = Append(collected, c)
    /\ all_assignments_raw' =
          IF task[c] = "finished" THEN all_assignments_raw \o assignments_for_course[c]
          ELSE all_assignments_raw
    /\ sync_status' = IF task[c] = "crashed"
                      THEN update_status(sync_status, status_callback, MainThread,
                                         <<"generated an exception">>)
                      ELSE sync_status
    /\ UNCHANGED <<courses, selected_course_ids, fetch_pc, task, bucket_no,
                   assignments_for_course, final_assignments, fetch_failures, fetchFrame>>

\* After the executor block: de-duplicate and return
DeduplicateAndReturn ==
    /\ fetch_pc = "workers"
    /\ Len(collected) = Len(courses)
    /\ final_assignments' = Deduplicate(all_assignments_raw)
    /\ fetch_pc' = "returned"
    /\ sync_status' = update_status(sync_status, status_callback, MainThread,
                                    <<"All courses processed", "Total unique assignments">>)
    /\ UNCHANGED <<courses, selected_course_ids, task, bucket_no, assignments_for_course,
                   collected, all_assignments_raw, fetch_failures, fetchFrame>>

NextFetch ==
    \/ GetCanvasAssignments
    \/ \E c \in 1..Len(task) : WorkerStart(c)
    \/ \E c \in 1..Len(task) : WorkerFetchBucket(c)
    \/ \E c \in 1..Len(task) : Collect(c)
    \/ DeduplicateAndReturn

SpecFetch == InitFetch /\ [][NextFetch]_vars

----------------------------------------------------------------------------
\* The sync cycle of a wrapper: SyncThread.run (gui, with _on_run_sync and
\* _on_sync_success around it), SyncService.sync_assignments (web, called by
\* views.run_sync) and run_background_sync (daemon).

Wrappers == {"gui", "web", "daemon"}

\* Schemas a cycle can meet: complete, needing a PATCH, and one whose PATCH
\* Notion refuses
CycleSchemas ==
    { << Field("Name", "title"), Field("Due Date", "date"),
         Field("Course", "rich_text"), Field("URL", "rich_text") >>,
      << Field("Title", "title"), Field("Created", "date") >>,
      << Field("Course", "title") >> }

\* get_canvas_assignments as the wrapper sees it: a list, empty or not; the
\* exception of a failed course list request only without a callback
FetchOutcomes(cb) == IF cb THEN {"empty", "some"} ELSE {"empty", "some", "raise"}

\* add_to_notion as the wrapper sees it: it returns, or raises at the pre-fetch
AddOutcomes == {"returned", "raised"}

CoreCall(call, ok, first, writes) ==
    [call |-> call, ok |-> ok, first |-> first, writes |-> writes]

\* Mutant: the result of the schema check is not looked at
SchemaGateAborts_Ignored(r) == FALSE

\* "if not schema_ok: ... return", and the wrapper's except Exception when the
\* schema check raised
SchemaGateAborts(r) == r.raised \/ ~r.ok

\* "if not assignments:" ends the cycle as a success in SyncThread.run and in
\* SyncService.sync_assignments; run_background_sync has no such test
EndsOnEmpty(w) == w \in {"gui", "web"}

InitCycle ==
    /\ IdleSync
    /\ IdlePlan
    /\ IdleWeb
    /\ IdleFetch
    /\ status_callback = TRUE
    /\ schema \in CycleSchemas
    /\ ensure_calls = <<>>
    /\ wrapper \in Wrappers
    /\ cycle_pc = "idle"
    /\ cycle_log = <<>>
    /\ cycle_result = "none"
    /\ cycle_first_sync_complete = FALSE
    /\ first_sync_complete = FALSE
    /\ cycles = 0

cycleFrame == <<assignments, pages, pc, run, is_first_sync, existing_pages_map,
                next_cursor, idx, log, history, failures, fetchVars, ensure_calls, planVars, webVars>>

\* A cycle starts: the wrapper loads the persisted flag. SyncThread.run and
\* run_background_sync always pass a callback; sync_assignments passes the one
\* it was given, which may be None.
CycleStart(cb) ==
    /\ cycle_pc \in {"idle", "done"}
    /\ cycles < MaxCycles
    /\ cycles' = cycles + 1
    /\ status_callback' = IF wrapper = "web" THEN cb ELSE TRUE
    /\ cycle_first_sync_complete' = first_sync_complete
    /\ cycle_log' = <<>>
    /\ cycle_result' = "none"
    /\ cycle_pc' = "started"
    /\ UNCHANGED <<wrapper, first_sync_complete, schema, cycleFrame>>

\* schema_ok, date_property_name = ensure_database_properties(...)
CycleEnsure ==
    /\ cycle_pc = "started"
    /\ \E get_ok \in BOOLEAN, patch_ok \in BOOLEAN :
         LET r == ensure_database_properties(schema, status_callback, get_ok, patch_ok)
         IN /\ schema' = r.schema
            /\ cycle_log' = Append(cycle_log, CoreCall("ensure", ~r.raised /\ r.ok, FALSE, FALSE))
            /\ cycle_pc' = IF SchemaGateAborts(r) THEN "done" ELSE "ensured"
            /\ cycle_result' = IF SchemaGateAborts(r) THEN "failed" ELSE "none"
    /\ UNCHANGED <<wrapper, status_callback, cycle_first_sync_complete, first_sync_complete,
                   cycles, cycleFrame>>

\* assignments = get_canvas_assignments(...)
CycleFetch ==
    /\ cycle_pc = "ensured"
    /\ \E out \in FetchOutcomes(status_callback) :
         /\ cycle_log' = Append(cycle_log, CoreCall("fetch", out = "some", FALSE, FALSE))
         /\ cycle_pc' = IF out = "raise" \/ (out = "empty" /\ EndsOnEmpty(wrapper))
                        THEN "done" ELSE "fetched"
         /\ cycle_result' = IF out = "raise" THEN "failed"
                            ELSE IF out = "empty" /\ EndsOnEmpty(wrapper) THEN "success"
                            ELSE "none"
         /\ first_sync_complete' =
               IF out = "empty" /\ EndsOnEmpty(wrapper) THEN TRUE ELSE first_sync_complete
    /\ UNCHANGED <<wrapper, status_callback, cycle_first_sync_complete, cycles, schema,
                   cycleFrame>>

\* Mutant: add_to_notion is always called with is_first_sync=True
CycleAdd_AlwaysFirst ==
    /\ cycle_pc = "fetched"
    /\ \E out \in AddOutcomes :
         /\ cycle_log' = Append(cycle_log,
                                CoreCall("add_to_notion", out = "returned", TRUE,
                                         out = "returned" /\ cycle_log[Len(cycle_log)].ok))
         /\ cycle_result' = IF out = "returned" THEN "success" ELSE "failed"
         /\ first_sync_complete' = IF out = "returned" THEN TRUE ELSE first_sync_complete
    /\ cycle_pc' = "done"
    /\ UNCHANGED <<wrapper, status_callback, cycle_first_sync_complete, cycles, schema,
                   cycleFrame>>

\* add_to_notion(..., is_first_sync=not first_sync_complete) and the end of
\* the cycle: a success persists first_sync_complete = True
CycleAdd ==
    /\ cycle_pc = "fetched"
    /\ \E out \in AddOutcomes :
         /\ cycle_log' = Append(cycle_log,
                                CoreCall("add_to_notion", out = "returned",
                                         ~cycle_first_sync_complete,
                                         out = "returned" /\ cycle_log[Len(cycle_log)].ok))
         /\ cycle_result' = IF out = "returned" THEN "success" ELSE "failed"
         /\ first_sync_complete' = IF out = "returned" THEN TRUE ELSE first_sync_complete
    /\ cycle_pc' = "done"
    /\ UNCHANGED <<wrapper, status_callback, cycle_first_sync_complete, cycles, schema,
                   cycleFrame>>

NextCycle ==
    \/ \E cb \in BOOLEAN : CycleStart(cb)
    \/ CycleEnsure
    \/ CycleFetch
    \/ CycleAdd

SpecCycle == InitCycle /\ [][NextCycle]_vars

----------------------------------------------------------------------------
\* time_blocker.py: find_slot_for_block and schedule_blocks.
\* A date is its proleptic Gregorian ordinal, a datetime the minutes since the
\* midnight that starts ordinal 0.

MinutesPerDay == 1440
At(day, minute) == day * MinutesPerDay + minute
DayOf(t) == t \div MinutesPerDay

\* Mutant: the weekday is counted from Sunday
Weekday_FromSunday(d) == d % 7

\* date.weekday(): Monday = 0
Weekday(d) == (d + 6) % 7

\* Defaults of schedule_blocks
block_minutes == 90
low_points_threshold == 10
short_quiz_minutes == 15
max_blocks_per_assignment == 4

\* find_slot_for_block: max_lookback, the attempts limit
max_lookback == 30
max_attempts == 48

\* time(18,0), where the fallback puts the last block
FallbackMinute == 1080

\* Dates the model plans around: 2024-12-27, 2025-01-03, 2025-01-08 .. 2025-01-10,
\* 2025-01-21, 2025-01-24
D_1227 == 739247
D_0103 == 739254
D_0108 == 739259
D_0109 == 739260
D_0110 == 739261
D_0121 == 739272
D_0124 == 739275

\* A date field of an assignment: absent, a string that does not parse, a date
NoDate == [kind |-> "none", day |-> 0]
BadDate == [kind |-> "bad", day |-> 0]
OnDay(d) == [kind |-> "date", day |-> d]

\* points_possible: <<>> is None
NoPoints == <<>>

PlanAssignment(name, due_date, due_at, lock_at, points, types, est) ==
    [name |-> name, due_date |-> due_date, due_at |-> due_at, lock_at |-> lock_at,
     created_at |-> NoDate, points_possible |-> points, submission_types |-> types,
     quiz_id |-> FALSE, priority |-> "", estimated_minutes |-> est]

\* Lines 137-145: due_date, else the first present of due_at, lock_at and
\* created_at, which becomes None when it does not parse
due_date_str(a) ==
    IF a.due_date.kind # "none" THEN a.due_date
    ELSE LET due_at == IF a.due_at.kind # "none" THEN a.due_at
                       ELSE IF a.lock_at.kind # "none" THEN a.lock_at
                       ELSE a.created_at
         IN IF due_at.kind = "date" THEN due_at ELSE NoDate

\* Mutant: overdue assignments are not excluded
Survives_Overdue(a, t) ==
    /\ due_date_str(a).kind = "date"
    /\ due_date_str(a).day <= t + 14

\* Lines 147-164: no date, unparsable, overdue, more than 14 days out
Survives(a, t) ==
    /\ due_date_str(a).kind = "date"
    /\ due_date_str(a).day >= t
    /\ due_date_str(a).day <= t + 14

\* filtered: the surviving (due_dt, a) pairs in input order; k is the
\* position in the input, kept to name the assignment
RECURSIVE Filter(_, _, _)
Filter(as, k, t) ==
    IF k > Len(as) THEN <<>>
    ELSE (IF Survives(as[k], t)
          THEN << [due_dt |-> due_date_str(as[k]).day, a |-> as[k], k |-> k] >>
          ELSE <<>>) \o Filter(as, k + 1, t)

\* list.sort(key=lambda x: x[0]): stable insertion by due date
RECURSIVE InsertSorted(_, _)
InsertSorted(sorted, x) ==
    IF sorted = <<>> THEN <<x>>
    ELSE IF Head(sorted).due_dt <= x.due_dt
         THEN <<Head(sorted)>> \o InsertSorted(Tail(sorted), x)
         ELSE <<x>> \o sorted

RECURSIVE SortByDue(_)
SortByDue(f) ==
    IF f = <<>> THEN <<>>
    ELSE InsertSorted(SortByDue(SubSeq(f, 1, Len(f) - 1)), f[Len(f)])

\* Scores are kept in quarters of a point: 4 is the score 1.0
Quarter == 4

\* Names the model uses and the keyword tier found in them by the scan of
\* lines 234-287 (the description is empty): 'final exam' is a high-priority
\* keyword, 'essay' a medium one, 'review' a low one
HighKeywordNames == {"Final Exam"}
MediumKeywordNames == {"Essay"}
LowKeywordNames == {"Review"}

keyword_bonus(name) ==
    IF name \in HighKeywordNames THEN 8
    ELSE IF name \in MediumKeywordNames THEN 6
    ELSE IF name \in LowKeywordNames THEN 2
    ELSE 0

\* is_quiz, is_on_paper and the file upload test on submission_types
is_quiz(a) == a.quiz_id \/ "online_quiz" \in a.submission_types
is_on_paper(a) == "on_paper" \in a.submission_types
is_upload(a) == "online_upload" \in a.submission_types

\* Lines 204-213
points_bonus(points) ==
    IF points = NoPoints THEN 0
    ELSE IF points[1] >= 100 THEN 10
    ELSE IF points[1] >= 50 THEN 6
    ELSE IF points[1] >= 25 THEN 4
    ELSE IF points[1] >= 10 THEN 2
    ELSE 0

\* Lines 226-230
priority_bonus(pr) ==
    IF pr \in {"high", "urgent", "exam", "final", "midterm", "critical"} THEN 6
    ELSE IF pr \in {"medium", "important"} THEN 3
    ELSE 0

\* Mutant: the tiers of the urgency bonus are the wrong way round
urgency_bonus_Reversed(days_until_due) ==
    IF days_until_due <= 1 THEN 0
    ELSE IF days_until_due <= 3 THEN 2
    ELSE IF days_until_due <= 7 THEN 4
    ELSE 6

\* Lines 291-298
urgency_bonus(days_until_due) ==
    IF days_until_due <= 1 THEN 6
    ELSE IF days_until_due <= 3 THEN 4
    ELSE IF days_until_due <= 7 THEN 2
    ELSE 0

score(a, due_dt, t) ==
    Quarter + points_bonus(a.points_possible)
      + (IF is_on_paper(a) THEN 8 ELSE 0)
      + (IF is_upload(a) THEN 2 ELSE 0)
      + priority_bonus(a.priority)
      + keyword_bonus(a.name)
      + urgency_bonus(due_dt - t)
      + (IF Len(a.name) > 50 THEN 1 ELSE 0)

\* Python's round() of a score in quarters: to the nearest integer, a half to
\* the even one
round(q) ==
    LET whole == q \div Quarter
        rest == q % Quarter
    IN IF rest * 2 < Quarter THEN whole
       ELSE IF rest * 2 > Quarter THEN whole + 1
       ELSE IF whole % 2 = 0 THEN whole ELSE whole + 1

Max(x, y) == IF x >= y THEN x ELSE y

\* math.ceil(est_minutes / block_minutes)
ceil(x, y) == (x + y - 1) \div y

\* "if is_quiz and points is not None and points <= low_points_threshold"
LowPointQuiz(a) ==
    /\ is_quiz(a)
    /\ a.points_possible # NoPoints
    /\ a.points_possible[1] <= low_points_threshold

\* Lines 192-308: the number of blocks of a surviving assignment
BlockCount(a, due_dt, t) ==
    IF a.estimated_minutes > 0
    THEN Max(1, Min(max_blocks_per_assignment, ceil(a.estimated_minutes, block_minutes)))
    ELSE Min(Max(1, round(score(a, due_dt, t))), max_blocks_per_assignment)

\* Lines 313-316
this_block_minutes(a, short) ==
    IF LowPointQuiz(a) /\ short THEN short_quiz_minutes ELSE block_minutes

\* find_slot_for_block returns None
NoSlot == <<>>

\* windows_by_weekday.get(wd, []) and scheduled_on_day.get(d.isoformat(), [])
WindowsOn(windows, wd) == IF wd \in DOMAIN windows THEN windows[wd] ELSE <<>>
DaySched(on_day, d) == SelectSeq(on_day, LAMBDA b : b.day = d)

\* Mutant: the candidate is never compared with the blocks of the day
Overlaps_Never(candidate_start, candidate_end, day_sched) == FALSE

\* "if not (candidate_end <= s or candidate_start >= e)" for some (s, e)
Overlaps(candidate_start, candidate_end, day_sched) ==
    \E k \in 1..Len(day_sched) :
        ~(candidate_end <= day_sched[k].s \/ candidate_start >= day_sched[k].e)

RECURSIVE total_today(_)
total_today(day_sched) ==
    IF day_sched = <<>> THEN 0
    ELSE (Head(day_sched).e - Head(day_sched).s) + total_today(Tail(day_sched))

\* Mutant: the daily maximum is not looked at
OverDailyMax_Never(day_sched, minutes, daily_max) == FALSE

\* "if daily_max_minutes: ... total_today + block_minutes > daily_max_minutes"
OverDailyMax(day_sched, minutes, daily_max) ==
    daily_max # 0 /\ total_today(day_sched) + minutes > daily_max

\* Mutant: the loop does not stop at the start of the window
RECURSIVE SlideInWindow_PastStart(_, _, _, _, _, _, _)
SlideInWindow_PastStart(candidate_start, candidate_end, w_start_dt, day_sched, minutes, daily_max, attempts) ==
    IF ~(attempts < max_attempts) THEN NoSlot
    ELSE IF ~Overlaps(candidate_start, candidate_end, day_sched)
            /\ ~OverDailyMax(day_sched, minutes, daily_max)
    THEN <<candidate_start, candidate_end>>
    ELSE SlideInWindow_PastStart(candidate_start - minutes, candidate_start, w_start_dt,
                                 day_sched, minutes, daily_max, attempts + 1)

\* The while loop of one window: the candidate moves earlier by its own
\* length until it fits, leaves the window or the attempts run out
RECURSIVE SlideInWindow(_, _, _, _, _, _, _)
SlideInWindow(candidate_start, candidate_end, w_start_dt, day_sched, minutes, daily_max, attempts) ==
    IF ~(candidate_start >= w_start_dt /\ attempts < max_attempts) THEN NoSlot
    ELSE IF ~Overlaps(candidate_start, candidate_end, day_sched)
            /\ ~OverDailyMax(day_sched, minutes, daily_max)
    THEN <<candidate_start, candidate_end>>
    ELSE SlideInWindow(candidate_start - minutes, candidate_start, w_start_dt, day_sched,
                       minutes, daily_max, attempts + 1)

\* for w_start, w_end in reversed(windows); a window ends at 23:59 at the
\* latest, so latest_end is its end
RECURSIVE TryWindows(_, _, _, _, _, _)
TryWindows(windows, j, d, day_sched, minutes, daily_max) ==
    IF j = 0 THEN NoSlot
    ELSE LET latest_end == At(d, windows[j][2])
             slot == SlideInWindow(latest_end - minutes, latest_end, At(d, windows[j][1]),
                                   day_sched, minutes, daily_max, 0)
         IN IF slot # NoSlot THEN slot
            ELSE TryWindows(windows, j - 1, d, day_sched, minutes, daily_max)

\* while days_back <= max_lookback
RECURSIVE TryDays(_, _, _, _, _, _)
TryDays(windows, on_day, target_date, minutes, daily_max, days_back) ==
    IF days_back > max_lookback THEN NoSlot
    ELSE LET d == target_date - days_back
             ws == WindowsOn(windows, Weekday(d))
             slot == TryWindows(ws, Len(ws), d, DaySched(on_day, d), minutes, daily_max)
         IN IF slot # NoSlot THEN slot
            ELSE TryDays(windows, on_day, target_date, minutes, daily_max, days_back + 1)

find_slot_for_block(windows, on_day, target_date, minutes, daily_max) ==
    TryDays(windows, on_day, target_date, minutes, daily_max, 0)

\* Lines 319-323: k is i of range(n_blocks)
FallbackSlot(due_dt, minutes, n, k) ==
    LET start_dt == At(due_dt, FallbackMinute) - minutes * (n - k - 1)
    IN <<start_dt, start_dt + minutes>>

\* ---- the inputs of schedule_blocks ----

PlanTodays == {D_1227, D_0109, D_0110}

\* Friday 18:00-21:00 only; no window at all; Thursday 09:00-10:30 and
\* 17:00-20:00 with Friday 12:00-13:00 and 18:00-21:00; Friday 19:00-20:00,
\* too short for a block of block_minutes; Friday 19:00-21:00, one block of
\* block_minutes and half an hour to spare
FridayEvening == (4 :> << <<1080, 1260>> >>)
NoWindows == (4 :> <<>>)
ThursdayAndFriday ==
    (3 :> << <<540, 630>>, <<1020, 1200>> >>) @@ (4 :> << <<720, 780>>, <<1080, 1260>> >>)
FridayHour == (4 :> << <<1140, 1200>> >>)
FridayTwoHours == (4 :> << <<1140, 1260>> >>)
Availabilities == {FridayEvening, NoWindows, ThursdayAndFriday, FridayHour, FridayTwoHours}

DailyMaxValues == {0, 180}

\* Assignments equal but for points_possible and the due date
Variant(name, points, day) == PlanAssignment(name, NoDate, OnDay(day), NoDate, points, {}, 0)
VariantsOf(name) ==
    { Variant(name, points, day) : points \in {NoPoints, <<5>>, <<100>>},
                                   day \in {D_0108, D_0110, D_0121, D_0124} }

\* Undated, unparsable due_at before a good lock_at, dated by due_date or by
\* lock_at, a low-point quiz, an estimate of 200 minutes, an on-paper final
SpecialAssignments ==
    { PlanAssignment("HW 3", NoDate, NoDate, NoDate, <<30>>, {}, 0),
      PlanAssignment("HW 3", NoDate, BadDate, OnDay(D_0110), <<30>>, {}, 0),
      PlanAssignment("Review", OnDay(D_0110), OnDay(D_0108), NoDate, <<30>>, {"online_upload"}, 0),
      PlanAssignment("Review", NoDate, NoDate, OnDay(D_0109), NoPoints, {}, 0),
      PlanAssignment("Quiz 1", NoDate, OnDay(D_0110), NoDate, <<5>>, {"online_quiz"}, 0),
      PlanAssignment("HW 3", NoDate, OnDay(D_0110), NoDate, <<5>>, {}, 200),
      PlanAssignment("Final Exam", NoDate, OnDay(D_0110), NoDate, <<100>>, {"on_paper"}, 0) }

PlanLists ==
    LET singles == { <<a>> : a \in SpecialAssignments \cup VariantsOf("Essay") }
        pairs == { <<a, b>> : a, b \in { v \in VariantsOf("HW 3") : v.points_possible # NoPoints } }
                 \cup { <<a, b>> : a, b \in SpecialAssignments }
        triples == { <<Variant("Essay", <<100>>, D_0110), a, Variant("HW 3", <<5>>, D_0109)>> :
                       a \in SpecialAssignments }
    IN { l \in {<<>>} \cup singles \cup pairs \cup triples : Len(l) <= MaxPlanAssignments }

\* ---- schedule_blocks: the actions ----

InitPlan ==
    /\ IdleSync
    /\ IdleSchema
    /\ IdleFetch
    /\ IdleCycle
    /\ IdleWeb
    /\ status_callback = TRUE
    /\ plan_assignments \in PlanLists
    /\ windows_by_weekday \in Availabilities
    /\ daily_max_minutes \in DailyMaxValues
    /\ include_short_quizzes \in BOOLEAN
    /\ today \in PlanTodays
    /\ plan_pc = "idle"
    /\ filtered = <<>>
    /\ cur = 0
    /\ n_blocks = 0
    /\ block_i = 0
    /\ scheduled = <<>>
    /\ scheduled_on_day = <<>>

planFrame == <<syncVars, schemaVars, fetchVars, cycleVars, webVars, plan_assignments,
               windows_by_weekday, daily_max_minutes, include_short_quizzes, today>>

\* Lines 127-170: the filter and the sort
ScheduleBlocks ==
    /\ plan_pc = "idle"
    /\ filtered' = SortByDue(Filter(plan_assignments, 1, today))
    /\ plan_pc' = "loop"
    /\ UNCHANGED <<cur, n_blocks, block_i, scheduled, scheduled_on_day, planFrame>>

\* Mutant: the low-point quiz is never skipped
SkipsQuiz_Never(a, short) == FALSE

\* Lines 187-189: "continue" for a low-point quiz when short quizzes are out
SkipsQuiz(a, short) == LowPointQuiz(a) /\ ~short

\* for due_dt, a in filtered: up to the loop over the blocks
NextPlanned ==
    /\ plan_pc = "loop"
    /\ cur < Len(filtered)
    /\ cur' = cur + 1
    /\ LET f == filtered[cur + 1]
       IN IF SkipsQuiz(f.a, include_short_quizzes)
          THEN /\ n_blocks' = 0
               /\ plan_pc' = "loop"
          ELSE /\ n_blocks' = BlockCount(f.a, f.due_dt, today)
               /\ plan_pc' = IF BlockCount(f.a, f.due_dt, today) > 0 THEN "blocks" ELSE "loop"
    /\ block_i' = 0
    /\ UNCHANGED <<filtered, scheduled, scheduled_on_day, planFrame>>

\* Mutant: a block without a slot is dropped and the assignment given up
UseFallback_Never(slot) == FALSE

\* "if not slot:" the fallback placement follows
UseFallback(slot) == slot = NoSlot

\* One iteration of "for i in range(n_blocks)"
PlaceBlock ==
    /\ plan_pc = "blocks"
    /\ block_i < n_blocks
    /\ LET f == filtered[cur]
           minutes == this_block_minutes(f.a, include_short_quizzes)
           found == find_slot_for_block(windows_by_weekday, scheduled_on_day, f.due_dt,
                                        minutes, daily_max_minutes)
           slot == IF UseFallback(found) THEN FallbackSlot(f.due_dt, minutes, n_blocks, block_i)
                   ELSE found
       IN IF slot = NoSlot
          THEN /\ plan_pc' = "loop"
               /\ UNCHANGED <<scheduled, scheduled_on_day, block_i>>
          ELSE /\ scheduled' = Append(scheduled,
                     [k |-> f.k, name |-> f.a.name, start |-> slot[1], end |-> slot[2],
                      duration |-> minutes, total_blocks |-> n_blocks,
                      block_num |-> block_i + 1, due_date |-> f.due_dt,
                      fallback |-> (found = NoSlot)])
               /\ scheduled_on_day' = Append(scheduled_on_day,
                     [day |-> DayOf(slot[1]), s |-> slot[1], e |-> slot[2]])
               /\ block_i' = block_i + 1
               /\ plan_pc' = IF block_i + 1 = n_blocks THEN "loop" ELSE "blocks"
    /\ UNCHANGED <<filtered, cur, n_blocks, planFrame>>

\* return scheduled
ReturnScheduled ==
    /\ plan_pc = "loop"
    /\ cur = Len(filtered)
    /\ plan_pc' = "returned"
    /\ UNCHANGED <<filtered, cur, n_blocks, block_i, scheduled, scheduled_on_day, planFrame>>

NextPlan ==
    \/ ScheduleBlocks
    \/ NextPlanned
    \/ PlaceBlock
    \/ ReturnScheduled

SpecPlan == InitPlan /\ [][NextPlan]_vars

-----------------------------------------------------------------------------
\* app.py: the /sync route and run_sync. The development server handles each
\* request in a thread of its own, so the route's check, the thread start and
\* the assignments of run_sync are separate steps.

InitWeb ==
    /\ IdleSync
    /\ IdleSchema
    /\ IdleFetch
    /\ IdleCycle
    /\ IdlePlan
    /\ status_callback = FALSE
    /\ sync_status_running = FALSE
    /\ request_pc = [r \in Requests |-> "new"]
    /\ thread_pc = [r \in Requests |-> "none"]

webFrame == <<syncVars, schemaVars, fetchVars, cycleVars, planVars>>

\* "if sync_status['running']:" the request is answered 400
SyncAlreadyRunning(running) == running

\* sync(): the check of line 229
SyncCheck(r) ==
    /\ request_pc[r] = "new"
    /\ request_pc' = [request_pc EXCEPT ![r] =
           IF SyncAlreadyRunning(sync_status_running) THEN "rejected" ELSE "checked"]
    /\ UNCHANGED <<sync_status_running, thread_pc, webFrame>>

\* sync(): the thread is created and started, the answer is 'started'
SyncStartThread(r) ==
    /\ request_pc[r] = "checked"
    /\ request_pc' = [request_pc EXCEPT ![r] = "started"]
    /\ thread_pc' = [thread_pc EXCEPT ![r] = "started"]
    /\ UNCHANGED <<sync_status_running, webFrame>>

\* run_sync: the first statement of the try block
RunSyncBegin(r) ==
    /\ thread_pc[r] = "started"
    /\ sync_status_running' = TRUE
    /\ thread_pc' = [thread_pc EXCEPT ![r] = "active"]
    /\ UNCHANGED <<request_pc, webFrame>>

\* run_sync: the sync itself, up to the finally block, on every path
RunSyncEnd(r) ==
    /\ thread_pc[r] = "active"
    /\ sync_status_running' = FALSE
    /\ thread_pc' = [thread_pc EXCEPT ![r] = "finished"]
    /\ UNCHANGED <<request_pc, webFrame>>

NextWeb ==
    \/ \E r \in Requests : SyncCheck(r)
    \/ \E r \in Requests : SyncStartThread(r)
    \/ \E r \in Requests : RunSyncBegin(r)
    \/ \E r \in Requests : RunSyncEnd(r)

SpecWeb == InitWeb /\ [][NextWeb]_vars

----------------------------------------------------------------------------
\* Claims about add_to_notion (SpecSync)

LogIdx == 1..Len(log)
CountOp(op) == Cardinality({ k \in LogIdx : log[k].op = op })
ItemIdx == 1..Len(assignments)
Matched(i) == assignments[i].name \in DOMAIN existing_pages_map
\* effective date strictly more than two weeks before today
LongOverdue(i) ==
    /\ due_date_iso(assignments[i]) # None
    /\ ParseDay(due_date_iso(assignments[i])) + TwoWeeks < Today
StaleMatched(i) == Matched(i) /\ ~is_first_sync /\ LongOverdue(i)
\* the items whose iteration is over
Processed == IF pc \in {"loop", "returned"} THEN 1..(idx - 1) ELSE {}
WritesOf(i) == { k \in LogIdx : log[k].i = i /\ log[k].op \in WriteOps }

\* C1: when add_to_notion has returned, the number of patch-page calls is the
\* number K of assignments whose title is in the pre-fetched map, less the
\* staleness-skipped ones, and the number of create-page calls is N - K,
\* whatever the outcome of each call; with no skipped item that is K and N - K.
C1_UpsertCompleteness ==
    pc = "returned" =>
        LET N == Len(assignments)
            K == Cardinality({ i \in ItemIdx : Matched(i) })
            S == Cardinality({ i \in ItemIdx : StaleMatched(i) })
        IN /\ CountOp("patch_page") = K - S
           /\ CountOp("create_page") = N - K

\* C1 witness: two assignments, one matched, none skipped, and a failed call
C1_Witness ==
    /\ pc = "returned"
    /\ Len(assignments) = 2
    /\ Cardinality({ i \in ItemIdx : Matched(i) }) = 1
    /\ \A i \in ItemIdx : ~StaleMatched(i)
    /\ \E k \in LogIdx : log[k].op \in {"patch_page", "create_page"} /\ ~log[k].ok

\* C2: a second add_to_notion on the same list, after a first one whose every
\* call succeeded and with no other writer, issues no create-page call.
C2_SecondRunCreatesNothing ==
    run = 2 => \A k \in LogIdx : log[k].op # "create_page"

\* C3: without is_first_sync no content-block call is issued and no step
\* changes the body of an existing page; with is_first_sync every content-block
\* call on a page follows a successful property patch of that page for the
\* same item.
C3_State ==
    /\ ~is_first_sync => \A k \in LogIdx : log[k].op \notin ContentOps
    /\ \A k \in LogIdx :
         log[k].op \in ContentOps =>
            \E j \in 1..(k - 1) : /\ log[j].op = "patch_page"
                                  /\ log[j].ok
                                  /\ log[j].i = log[k].i
                                  /\ log[j].page = log[k].page

C3_Step ==
    (pc = "loop" /\ ~is_first_sync) =>
        \A id \in 1..Len(pages) : pages'[id].body = pages[id].body

C3_ContentGate == [](C3_State) /\ [][C3_Step]_vars

\* C3 witness: a first sync replaced the body of a matched page
C3_Witness ==
    /\ pc = "returned"
    /\ is_first_sync
    /\ \E k \in LogIdx : log[k].op = "delete_block" /\ log[k].ok
    /\ \E k \in LogIdx : log[k].op = "patch_blocks" /\ log[k].ok

\* C4: an item whose iteration is over has no write call exactly when it is
\* matched, is_first_sync is false and its effective date is strictly more
\* than two weeks before today; a first sync or an unmatched assignment always
\* has its write call.
C4_StalenessSkip ==
    \A i \in Processed :
        /\ (WritesOf(i) = {}) <=> StaleMatched(i)
        /\ (is_first_sync \/ ~Matched(i)) => WritesOf(i) # {}

\* C4 witness: one item was skipped as stale and a matched item dated exactly
\* two weeks ago was written
C4_Witness ==
    /\ pc = "returned"
    /\ \E i \in ItemIdx : StaleMatched(i)
    /\ \E i \in ItemIdx :
         /\ Matched(i)
         /\ due_date_iso(assignments[i]) # None
         /\ ParseDay(due_date_iso(assignments[i])) + TwoWeeks = Today
         /\ WritesOf(i) # {}

\* C5: once a request of the paginated pre-fetch has failed, add_to_notion has
\* raised, the call issued no create-page, patch-page or content-block call,
\* and nothing of the partly collected map is kept.
C5_PrefetchFailureAborts ==
    (\E k \in LogIdx : log[k].op = "query_pages" /\ ~log[k].ok) =>
        /\ pc = "raised"
        /\ \A k \in LogIdx : log[k].op \notin WriteOps
        /\ existing_pages_map = EmptyMap

\* C5 witness: the first request succeeded and a later one failed
C5_Witness ==
    /\ pc = "raised"
    /\ \E j, k \in LogIdx : /\ j < k
                            /\ log[j].op = "query_pages" /\ log[j].ok
                            /\ log[k].op = "query_pages" /\ ~log[k].ok

\* the item numbers of the "Processing i/N" messages, in order
RECURSIVE ProcessingOrder(_)
ProcessingOrder(l) ==
    IF l = <<>> THEN <<>>
    ELSE IF Head(l).op = "status" /\ Head(l).text = "Processing"
         THEN <<Head(l).i>> \o ProcessingOrder(Tail(l))
         ELSE ProcessingOrder(Tail(l))

\* C6: after a successful pre-fetch the items are processed once each in input
\* order ("Processing i/N" for i = 1..N), whatever fails, and add_to_notion
\* returns; it raises only when the pre-fetch failed.
C6_PartialFailureTolerance ==
    /\ pc = "raised" =>
          /\ idx = 0
          /\ log # <<>>
          /\ \E k \in LogIdx : log[k].op = "query_pages" /\ ~log[k].ok
    /\ pc = "loop" => idx \in ItemIdx
    /\ pc = "returned" => idx = Len(assignments) + 1
    /\ (pc \in {"loop", "returned"} /\ status_callback) =>
          ProcessingOrder(log) = [i \in 1..(idx - 1) |-> i]

\* C6 witness: the first of two items raised an exception and the second was
\* still processed
C6_Witness ==
    /\ pc = "returned"
    /\ Len(assignments) = 2
    /\ status_callback
    /\ \E k \in LogIdx : log[k].op = "status" /\ log[k].text = "Unhandled error" /\ log[k].i = 1
    /\ \E k \in LogIdx : log[k].op \in {"patch_page", "create_page"} /\ log[k].i = 2

----------------------------------------------------------------------------
\* Claims about ensure_database_properties (SpecSchema)

CallIdx == 1..Len(ensure_calls)
Succeeded(c) == ~c.raised /\ c.ok
IsCorrectSchema(s) ==
    /\ title_property_current_name(s) = "Name"
    /\ FirstOfType(s, "date") # None
    /\ {"Course", "URL"} \subseteq NamesOf(s)

\* C7: when a call succeeded (its PATCH, if any, applied), the next call, once
\* it has read the schema, sends no PATCH and returns the same date field
\* name; a call that reads an already-correct schema sends no PATCH.
C7_SchemaIdempotence ==
    /\ \A k \in CallIdx :
         (k > 1 /\ Succeeded(ensure_calls[k - 1]) /\ ensure_calls[k].get_ok) =>
            /\ ~ensure_calls[k].wrote
            /\ Succeeded(ensure_calls[k])
            /\ ensure_calls[k].date = ensure_calls[k - 1].date
    /\ \A k \in CallIdx :
         IsCorrectSchema(ensure_calls[k].schema_before) => ~ensure_calls[k].wrote

\* C7 witness: a first call renamed the title and created fields, a second
\* call then ran on the result
C7_Witness ==
    /\ Len(ensure_calls) = 2
    /\ ensure_calls[1].wrote /\ Succeeded(ensure_calls[1])
    /\ Len(ensure_calls[1].payload) >= 2
    /\ ensure_calls[1].date = "Due Date"
    /\ ensure_calls[2].get_ok

\* C9: a call whose schema read or whose PATCH failed returns (False, None)
\* and raises nothing, with or without a status callback; a failed read
\* sends no PATCH.
C9_FailureReturnsFalse ==
    \A k \in CallIdx :
        LET c == ensure_calls[k]
        IN /\ (~c.get_ok \/ c.patch_failed) => (~c.raised /\ ~c.ok /\ c.date = None)
           /\ ~c.get_ok => ~c.wrote

----------------------------------------------------------------------------
\* Claims about get_canvas_assignments (SpecFetch)

IdsOf(l) == { l[k].id : k \in 1..Len(l) }
FirstWithId(raw, id) == raw[CHOOSE k \in 1..Len(raw) :
                              raw[k].id = id /\ \A j \in 1..(k - 1) : raw[j].id # id]
\* the ids the courses' tasks reported, whatever the order they completed in
ReportedIds ==
    UNION { IdsOf(assignments_for_course[c]) :
              c \in { t \in 1..Len(task) : task[t] = "finished" } }

\* C10: the returned list holds exactly one record per distinct id, the first
\* one in merge order, and its set of ids is the set the course tasks
\* reported, so it does not depend on the order in which they completed.
C10_Dedup ==
    (fetch_pc = "returned" /\ task # <<>>) =>
        /\ \A j, k \in 1..Len(final_assignments) :
              j # k => final_assignments[j].id # final_assignments[k].id
        /\ IdsOf(final_assignments) = IdsOf(all_assignments_raw)
        /\ IdsOf(final_assignments) = ReportedIds
        /\ \A k \in 1..Len(final_assignments) :
              final_assignments[k] =
                 FinalRecord(FirstWithId(all_assignments_raw, final_assignments[k].id))

\* C10 witness: the second course completed first and both courses reported
\* assignment 1; the record kept is the second course's
C10_Witness ==
    /\ fetch_pc = "returned"
    /\ collected = <<2, 1>>
    /\ 1 \in IdsOf(assignments_for_course[1]) \cap IdsOf(assignments_for_course[2])
    /\ \E k \in 1..Len(final_assignments) :
          final_assignments[k].id = 1 /\ final_assignments[k].course_name = courses[2].name

----------------------------------------------------------------------------
\* Claims about the wrappers' sync cycle (SpecCycle)

CallsOf(call) == { k \in 1..Len(cycle_log) : cycle_log[k].call = call }

\* C8: in a cycle ensure_database_properties is called once, before anything
\* else of the core; when it returned failure or raised, the cycle is over
\* and failed with no Canvas fetch and no add_to_notion (so no page write).
C8_SchemaGate ==
    /\ CallsOf("ensure") \subseteq {1}
    /\ cycle_log # <<>> => CallsOf("ensure") = {1}
    /\ cycle_pc = "done" => CallsOf("ensure") = {1}
    /\ (cycle_log # <<>> /\ ~cycle_log[1].ok) =>
          /\ cycle_pc = "done"
          /\ cycle_result = "failed"
          /\ Len(cycle_log) = 1

\* C8 witness: the scheduled sync met a schema whose PATCH failed and ended
\* failed after the schema check alone
C8_Witness ==
    /\ wrapper = "daemon"
    /\ cycle_pc = "done"
    /\ cycle_result = "failed"
    /\ cycle_log = << CoreCall("ensure", FALSE, FALSE, FALSE) >>

----------------------------------------------------------------------------
\* Claims about the errors and the threads of get_canvas_assignments (SpecFetch)

\* The course list request failed: the call is over and nothing was submitted
ListFailed == fetch_pc \in {"returned", "raised"} /\ task = <<>> /\ fetch_failures > 0

\* No task brought anything back: each crashed or got no assignment
NothingFetched ==
    \A c \in 1..Len(task) : task[c] = "crashed" \/ assignments_for_course[c] = <<>>

\* C11 as stated: a failed course list request is a hard error for the
\* caller, with or without a status callback.
C11_ListFailureIsHardError == ListFailed => fetch_pc = "raised"

\* C11 amended: an empty course list, or tasks that all fail, give [] without
\* error; a failed course list request raises when no callback was supplied
\* and returns [] when one was.
C11_FetchErrorContract ==
    /\ (fetch_pc = "returned" /\ ~ListFailed /\ NothingFetched) => final_assignments = <<>>
    /\ fetch_pc = "raised" => ListFailed
    /\ ListFailed => /\ final_assignments = <<>>
                     /\ fetch_pc = (IF status_callback THEN "returned" ELSE "raised")

\* C11 witness: with a callback the failed course list request came back as
\* a plain return
C11_Witness == ListFailed /\ status_callback /\ fetch_pc = "returned"

\* C11 witness of the other half: both buckets of the only course failed and
\* the call returned []
C11_WitnessAllFail ==
    /\ fetch_pc = "returned"
    /\ Len(task) = 1
    /\ task[1] = "finished"
    /\ fetch_failures = 2
    /\ final_assignments = <<>>

\* C12: whatever goes wrong with one bucket's request or response, every
\* assignment another bucket delivered, for the same or another course, is
\* in the returned list.
C12_BucketFailureIsolation ==
    (fetch_pc = "returned" /\ ~ListFailed) =>
        \A c \in 1..Len(task) :
            IdsOf(assignments_for_course[c]) \subseteq IdsOf(final_assignments)

\* C13: at most max_workers tasks run at once, only the joining thread writes
\* state the threads share (the status callback's included), and the
\* de-duplication starts after every task finished or failed.
C13_WorkersShareNothing ==
    /\ Cardinality(Running) <= max_workers
    /\ \A k \in 1..Len(sync_status) : sync_status[k].thread = MainThread
    /\ fetch_pc = "returned" /\ ~ListFailed =>
          \A c \in 1..Len(task) : task[c] \in {"finished", "crashed"} /\ InCollected(c)

----------------------------------------------------------------------------
\* Claims about schedule_blocks (SpecPlan)

BlockIdx == 1..Len(scheduled)
SameDay(j, k) == DayOf(scheduled[j].start) = DayOf(scheduled[k].start)
Disjoint(j, k) ==
    scheduled[j].end <= scheduled[k].start \/ scheduled[k].end <= scheduled[j].start
NoFallback == \A k \in BlockIdx : ~scheduled[k].fallback
BlocksOf(k) == { b \in BlockIdx : scheduled[b].k = k }
StartDays == { DayOf(scheduled[k].start) : k \in BlockIdx }

RECURSIVE SumDurations(_)
SumDurations(S) ==
    IF S = {} THEN 0
    ELSE LET b == CHOOSE x \in S : TRUE
         IN scheduled[b].duration + SumDurations(S \ {b})

MinutesOn(d) == SumDurations({ k \in BlockIdx : DayOf(scheduled[k].start) = d })

\* C14: without a fallback block no two blocks starting on the same day
\* overlap, and a block that find_slot_for_block placed overlaps no block
\* placed before it on its day, fallback blocks included.
C14_NoOverlap ==
    /\ NoFallback => \A j, k \in BlockIdx : (j # k /\ SameDay(j, k)) => Disjoint(j, k)
    /\ \A k \in BlockIdx : ~scheduled[k].fallback =>
          \A j \in 1..(k - 1) : SameDay(j, k) => Disjoint(j, k)

\* C14 witness: two assignments share a day without a fallback block
C14_Witness ==
    /\ plan_pc = "returned"
    /\ NoFallback
    /\ \E j, k \in BlockIdx : j # k /\ SameDay(j, k) /\ scheduled[j].k # scheduled[k].k

\* C14 witness of the general part: a slot was found on a day that already
\* held a fallback block
C14_WitnessAfterFallback ==
    \E j, k \in BlockIdx : j < k /\ SameDay(j, k) /\ scheduled[j].fallback /\ ~scheduled[k].fallback

\* C15: with a daily maximum M > 0 and no fallback block, the durations of
\* the blocks of each day add up to M at most, after every placement.
C15_DailyCap ==
    (daily_max_minutes > 0 /\ NoFallback) =>
        \A d \in StartDays : MinutesOn(d) <= daily_max_minutes

\* C15 witness: a day is full and a later block (a 15 minute quiz among
\* them) went to another day although a window of the full day had room
C15_Witness ==
    /\ plan_pc = "returned"
    /\ daily_max_minutes = 180
    /\ NoFallback
    /\ windows_by_weekday = ThursdayAndFriday
    /\ MinutesOn(D_0110) = 180
    /\ \E k \in BlockIdx : /\ scheduled[k].duration = short_quiz_minutes
                           /\ scheduled[k].due_date = D_0110
                           /\ DayOf(scheduled[k].start) # D_0110

\* The input positions schedule_blocks plans: in the two weeks from today
\* and not a skipped quiz
Planned(k) ==
    /\ Survives(plan_assignments[k], today)
    /\ ~(LowPointQuiz(plan_assignments[k]) /\ ~include_short_quizzes)

\* C16: at the return every planned assignment has exactly total_blocks
\* blocks, numbered 1..total_blocks once each; a block without a slot sits at
\* 18:00 of the due date less its length times the blocks still to come, so
\* no two fallback blocks of an assignment start together.
C16_AlwaysAnAnswer ==
    /\ plan_pc = "returned" =>
          \A k \in 1..Len(plan_assignments) :
              IF Planned(k)
              THEN /\ BlocksOf(k) # {}
                   /\ \A b \in BlocksOf(k) :
                         /\ Cardinality(BlocksOf(k)) = scheduled[b].total_blocks
                         /\ scheduled[b].block_num \in 1..scheduled[b].total_blocks
                   /\ \A b, c \in BlocksOf(k) :
                         b # c => scheduled[b].block_num # scheduled[c].block_num
              ELSE BlocksOf(k) = {}
    /\ \A b \in BlockIdx : scheduled[b].fallback =>
          /\ scheduled[b].start =
                At(scheduled[b].due_date, FallbackMinute)
                  - scheduled[b].duration * (scheduled[b].total_blocks - scheduled[b].block_num)
          /\ scheduled[b].end = scheduled[b].start + scheduled[b].duration
          /\ \A c \in BlockIdx :
                (c # b /\ scheduled[c].fallback /\ scheduled[c].k = scheduled[b].k) =>
                    scheduled[c].start # scheduled[b].start

\* C16 witness: no window at all, and an assignment got its four blocks by
\* the fallback
C16_Witness ==
    /\ plan_pc = "returned"
    /\ windows_by_weekday = NoWindows
    /\ \E k \in 1..Len(plan_assignments) :
          /\ Cardinality(BlocksOf(k)) = max_blocks_per_assignment
          /\ \A b \in BlocksOf(k) : scheduled[b].fallback

\* C17: a block belongs to an assignment whose effective date is in
\* today .. today + 14, and the blocks come assignment by assignment in
\* non-decreasing order of due date.
C17_FilterAndOrder ==
    /\ \A b \in BlockIdx :
          LET a == plan_assignments[scheduled[b].k]
          IN /\ due_date_str(a).kind = "date"
             /\ scheduled[b].due_date = due_date_str(a).day
             /\ today <= scheduled[b].due_date
             /\ scheduled[b].due_date <= today + 14
    /\ \A b, c \in BlockIdx : b < c => scheduled[b].due_date <= scheduled[c].due_date
    /\ \A b, c \in BlockIdx :
          (b < c /\ scheduled[b].k = scheduled[c].k) =>
              \A x \in b..c : scheduled[x].k = scheduled[b].k

\* C17 witness: the second assignment of the input is due first and is
\* planned first
C17_Witness ==
    /\ plan_pc = "returned"
    /\ \E b, c \in BlockIdx : b < c /\ scheduled[b].k > scheduled[c].k

\* C17 witness of the filter: an overdue assignment got nothing next to one
\* that was planned
C17_WitnessFiltered ==
    /\ plan_pc = "returned"
    /\ scheduled # <<>>
    /\ \E k \in 1..Len(plan_assignments) :
          /\ due_date_str(plan_assignments[k]).kind = "date"
          /\ due_date_str(plan_assignments[k]).day < today
          /\ BlocksOf(k) = {}

\* Assignments that differ in points_possible and the due date at most, both
\* with points and a date
Comparable(j, k) ==
    LET a == plan_assignments[j]
        b == plan_assignments[k]
    IN /\ a.points_possible # NoPoints /\ b.points_possible # NoPoints
       /\ due_date_str(a).kind = "date" /\ due_date_str(b).kind = "date"
       /\ [a EXCEPT !.points_possible = NoPoints, !.due_at = NoDate]
            = [b EXCEPT !.points_possible = NoPoints, !.due_at = NoDate]

\* j is worth at least as much as k and due no later
AtLeastAsPressing(j, k) ==
    /\ plan_assignments[j].points_possible[1] >= plan_assignments[k].points_possible[1]
    /\ due_date_str(plan_assignments[j]).day <= due_date_str(plan_assignments[k]).day

\* C18 as stated: of two assignments equal but for points and due date, the
\* one with no fewer points and no later due date gets no fewer blocks.
C18_Monotone ==
    plan_pc = "returned" =>
        \A j, k \in 1..Len(plan_assignments) :
            (Comparable(j, k) /\ AtLeastAsPressing(j, k)) =>
                Cardinality(BlocksOf(j)) >= Cardinality(BlocksOf(k))

\* C18 amended: the same for assignments that are not overdue; 100 points
\* due tomorrow get no fewer blocks than 5 points due in 12 days.
C18_MonotoneNotOverdue ==
    plan_pc = "returned" =>
        \A j, k \in 1..Len(plan_assignments) :
            (/\ Comparable(j, k)
             /\ AtLeastAsPressing(j, k)
             /\ due_date_str(plan_assignments[j]).day >= today) =>
                Cardinality(BlocksOf(j)) >= Cardinality(BlocksOf(k))

\* C18 witness: 100 points due tomorrow got more blocks than 5 points due in
\* 12 days
C18_Witness ==
    /\ plan_pc = "returned"
    /\ \E j, k \in 1..Len(plan_assignments) :
          /\ Comparable(j, k)
          /\ plan_assignments[j].points_possible = <<100>>
          /\ plan_assignments[k].points_possible = <<5>>
          /\ due_date_str(plan_assignments[j]).day = today + 1
          /\ due_date_str(plan_assignments[k]).day = today + 12
          /\ Cardinality(BlocksOf(j)) > Cardinality(BlocksOf(k))
          /\ BlocksOf(k) # {}

\* The scenario: the Essay worth 100 points due Friday 2025-01-10, Friday
\* 18:00-21:00, block_minutes 90, daily_max_minutes 180, planned on a day of
\* the two weeks before
EssayScenario ==
    /\ plan_assignments = << Variant("Essay", <<100>>, D_0110) >>
    /\ windows_by_weekday = FridayEvening
    /\ daily_max_minutes = 180
    /\ today \in D_1227..D_0110

InFridayWindow(b, d) ==
    /\ scheduled[b].start >= At(d, 1080)
    /\ scheduled[b].end <= At(d, 1260)
    /\ scheduled[b].end - scheduled[b].start = block_minutes
    /\ scheduled[b].duration = block_minutes

\* C19 as stated: the scenario returns exactly 2 blocks, both on 2025-01-10
\* inside 18:00-21:00, 90 minutes each, not overlapping.
C19_EssayTwoBlocks ==
    (EssayScenario /\ plan_pc = "returned") =>
        /\ Len(scheduled) = 2
        /\ \A b \in BlockIdx : InFridayWindow(b, D_0110)
        /\ Disjoint(1, 2)

\* C19 amended: the scenario returns exactly 4 blocks (the score of 5.0 or
\* more is cut to max_blocks_per_assignment): blocks 1 and 2 on 2025-01-10 at
\* 19:30-21:00 and 18:00-19:30, blocks 3 and 4, which the daily maximum keeps
\* off that day, at the same times on Friday 2025-01-03; none by the fallback.
C19_EssayFourBlocks ==
    (EssayScenario /\ plan_pc = "returned") =>
        /\ Len(scheduled) = 4
        /\ \A b \in BlockIdx : /\ scheduled[b].block_num = b
                               /\ scheduled[b].total_blocks = 4
                               /\ ~scheduled[b].fallback
                               /\ InFridayWindow(b, IF b <= 2 THEN D_0110 ELSE D_0103)
        /\ scheduled[1].start = At(D_0110, 1170)
        /\ scheduled[2].start = At(D_0110, 1080)
        /\ scheduled[3].start = At(D_0103, 1170)
        /\ scheduled[4].start = At(D_0103, 1080)
        /\ \A b, c \in BlockIdx : b # c => Disjoint(b, c)

\* C19 witness: the scenario planned on the due date itself has returned
C19_Witness ==
    /\ EssayScenario
    /\ today = D_0110
    /\ plan_pc = "returned"
    /\ Len(scheduled) = 4

----------------------------------------------------------------------------
\* The scenario of ensure_database_properties (SpecSchema)

\* A schema of exactly the title property Title and the date property Created
TitleAndCreated(s) ==
    /\ Len(s) = 2
    /\ { s[1], s[2] } = { Field("Title", "title"), Field("Created", "date") }

EntriesOf(payload) == { payload[k] : k \in 1..Len(payload) }

\* C20 as stated: on {Title: title, Created: date} the call returns
\* (True, 'Created'), its change set renames Title to Name and creates no
\* field.
C20_RenameOnly ==
    \A k \in CallIdx :
        LET c == ensure_calls[k]
        IN (TitleAndCreated(c.schema_before) /\ c.get_ok) =>
              /\ ~c.patch_failed => (Succeeded(c) /\ c.date = "Created")
              /\ [key |-> "Title", value |-> Rename("Name")] \in EntriesOf(c.payload)
              /\ \A e \in EntriesOf(c.payload) : e.value.kind # "type"

\* C20 amended: the call returns (True, 'Created') and its change set is the
\* rename of Title to Name with the creation of Course and of URL, which the
\* schema lacks; no date field is created.
C20_RenameAndRequired ==
    \A k \in CallIdx :
        LET c == ensure_calls[k]
        IN (TitleAndCreated(c.schema_before) /\ c.get_ok) =>
              /\ ~c.patch_failed => (Succeeded(c) /\ c.date = "Created")
              /\ c.wrote
              /\ c.payload = << [key |-> "Title", value |-> Rename("Name")],
                                [key |-> "Course", value |-> OfType("rich_text")],
                                [key |-> "URL", value |-> OfType("url")] >>

\* C20 witness: the call on that schema succeeded
C20_Witness ==
    \E k \in CallIdx :
        /\ TitleAndCreated(ensure_calls[k].schema_before)
        /\ Succeeded(ensure_calls[k])
        /\ ensure_calls[k].schema = << Field("Name", "title"), Field("Created", "date"),
                                       Field("Course", "rich_text"), Field("URL", "url") >>

-----------------------------------------------------------------------------
\* Claims about the page payload (SpecSync)

\* C21: the payload of an assignment with no effective date carries no date
\* entry, so the iteration that handles such an assignment leaves the date of
\* every existing page as it was.
C21_NoDateLeavesDate ==
    [][(/\ pc = "loop"
        /\ idx <= Len(assignments)
        /\ due_date_iso(assignments[idx]) = None)
         => \A id \in 1..Len(pages) : pages'[id].date = pages[id].date]_vars

-----------------------------------------------------------------------------
\* Claims about the slot search (SpecPlan)

\* the block PlaceBlock is about to place, and the window tried first: the
\* last window of the due date
PlacingBlock == plan_pc = "blocks" /\ block_i < n_blocks
FirstWindow == LET ws == WindowsOn(windows_by_weekday, Weekday(filtered[cur].due_dt))
               IN ws[Len(ws)]
HasFirstWindow ==
    WindowsOn(windows_by_weekday, Weekday(filtered[cur].due_dt)) # <<>>
\* the candidate k steps of 15 minutes back from the end of the first window
\* lies in the window, overlaps nothing and keeps the daily maximum
StepMinutes == 15
FreeGapAt(k) ==
    LET f == filtered[cur]
        minutes == this_block_minutes(f.a, include_short_quizzes)
        candidate_end == At(f.due_dt, FirstWindow[2]) - StepMinutes * k
        candidate_start == candidate_end - minutes
        day_sched == DaySched(scheduled_on_day, f.due_dt)
    IN /\ candidate_start >= At(f.due_dt, FirstWindow[1])
       /\ ~Overlaps(candidate_start, candidate_end, day_sched)
       /\ ~OverDailyMax(day_sched, minutes, daily_max_minutes)

\* C22: rejected candidates are followed by the one 15 minutes earlier, for at
\* most 48 attempts, so when the window tried first has a free gap of block
\* length a whole number of 15-minute steps (fewer than 48) back from its end,
\* the block is placed inside that window.
C22_SlideByQuarterHour ==
    [][(/\ PlacingBlock
        /\ HasFirstWindow
        /\ \E k \in 0..(max_attempts - 1) : FreeGapAt(k))
         => LET b == scheduled'[Len(scheduled')]
                d == filtered[cur].due_dt
            IN /\ Len(scheduled') = Len(scheduled) + 1
               /\ ~b.fallback
               /\ b.start >= At(d, FirstWindow[1])
               /\ b.end <= At(d, FirstWindow[2])]_vars

\* C23: at the return a surviving quiz worth at most low_points_threshold has
\* no block when include_short_quizzes is false, and exactly one block, of
\* short_quiz_minutes, when it is true, whatever its score.
C23_LowPointQuizRule ==
    plan_pc = "returned" =>
        \A k \in 1..Len(plan_assignments) :
            (Survives(plan_assignments[k], today) /\ LowPointQuiz(plan_assignments[k])) =>
                IF include_short_quizzes
                THEN /\ Cardinality(BlocksOf(k)) = 1
                     /\ \A b \in BlocksOf(k) : scheduled[b].duration = short_quiz_minutes
                ELSE BlocksOf(k) = {}

-----------------------------------------------------------------------------
\* Claims about the title rename (SpecSchema)

\* C24: whenever the schema read has its title field under a name other than
\* "Name", "Course" and "URL" included, the PATCH is sent and carries the
\* rename of that field to "Name", and after a successful call the title
\* field is named "Name".
C24_TitleNormalisation ==
    \A k \in CallIdx :
        LET c == ensure_calls[k]
            title == title_property_current_name(c.schema_before)
        IN (c.get_ok /\ NeedsRename(c.schema_before)) =>
              /\ c.wrote
              /\ \E j \in 1..Len(c.payload) :
                    c.payload[j].key = title /\ c.payload[j].value = Rename("Name")
              /\ Succeeded(c) => title_property_current_name(c.schema) = "Name"

\* the windows of the weekday of day d, and block b lying inside window j
WindowsOfDay(d) == WindowsOn(windows_by_weekday, Weekday(d))
InWindow(b, j) ==
    LET d == DayOf(scheduled[b].start)
    IN /\ At(d, WindowsOfDay(d)[j][1]) <= scheduled[b].start
       /\ scheduled[b].end <= At(d, WindowsOfDay(d)[j][2])
\* the block is the first one put on its day
FirstOnDay(b) == \A c \in 1..(b - 1) : ~SameDay(b, c)
\* windows of day d long enough for a block of the given length
LongEnough(d, minutes) ==
    { j \in 1..Len(WindowsOfDay(d)) : WindowsOfDay(d)[j][2] - WindowsOfDay(d)[j][1] >= minutes }

\* C25: a block placed by the slot search lies inside one availability window
\* of the weekday of its date, is as long as the block length, and its date
\* is between the due date less 30 days and the due date; the windows of a
\* day are tried from the last one, and the first candidate ends at the end of
\* the window, so the first block of a day (the daily maximum allowing it)
\* ends at the end of the day's last window that is long enough.
C25_SlotInsideWindow ==
    \A b \in BlockIdx :
        ~scheduled[b].fallback =>
            LET d == DayOf(scheduled[b].start)
                a == plan_assignments[scheduled[b].k]
                minutes == this_block_minutes(a, include_short_quizzes)
            IN /\ \E j \in 1..Len(WindowsOfDay(d)) : InWindow(b, j)
               /\ scheduled[b].end - scheduled[b].start = minutes
               /\ scheduled[b].duration = minutes
               /\ scheduled[b].due_date - max_lookback <= d
               /\ d <= scheduled[b].due_date
               /\ FirstOnDay(b) =>
                     /\ LongEnough(d, minutes) # {}
                     /\ \A j \in LongEnough(d, minutes) :
                           (\A i \in LongEnough(d, minutes) : i <= j) =>
                              scheduled[b].end = At(d, WindowsOfDay(d)[j][2])

\* C25 witness: a block found on a day before the due date, and a block in a
\* window that is not the last one of its day
C25_Witness ==
    /\ plan_pc = "returned"
    /\ \E b \in BlockIdx :
          ~scheduled[b].fallback /\ DayOf(scheduled[b].start) < scheduled[b].due_date
    /\ \E b \in BlockIdx :
          /\ ~scheduled[b].fallback
          /\ Len(WindowsOfDay(DayOf(scheduled[b].start))) = 2
          /\ InWindow(b, 1)

-----------------------------------------------------------------------------
\* Claims about page titles (SpecSync)

UniqueTitles(ps) == \A j, k \in 1..Len(ps) : j # k => ps[j].title # ps[k].title

\* C26: when the first add_to_notion on a database without two pages of one
\* title has returned and every call of it succeeded, no two pages share a
\* title, whatever the input list, two assignments of one name with no
\* matching page included.
C26_TitlesStayUnique ==
    (pc = "returned" /\ run = 1 /\ \A k \in LogIdx : log[k].ok)
        => UniqueTitles(pages)

-----------------------------------------------------------------------------
\* Claims about the planning date (SpecPlan)

\* C27: no block, whether found by the backward search or placed by the
\* fallback, starts on a day before today.
C27_NoBlockBeforeToday ==
    \A b \in BlockIdx : DayOf(scheduled[b].start) >= today

-----------------------------------------------------------------------------
\* Claims about the web app's sync guard (SpecWeb)

\* the run_sync threads between their first statement and their finally block
ActiveThreads == { r \in Requests : thread_pc[r] = "active" }

\* C28: under every interleaving of POST /sync requests and run_sync threads
\* at most one run_sync thread is active, and sync_status['running'] is true
\* exactly while one is.
C28_SingleSyncGuard ==
    /\ Cardinality(ActiveThreads) <= 1
    /\ sync_status_running <=> ActiveThreads # {}

-----------------------------------------------------------------------------
\* Claims about the first-sync flag (SpecCycle)

\* the persisted flag goes from false to true in this step
FlagRises == ~first_sync_complete /\ first_sync_complete'

\* C29: first_sync_complete becomes true only in a cycle whose Canvas fetch
\* brought assignments and in which add_to_notion ran with is_first_sync =
\* true; a cycle whose fetch failed or returned nothing leaves the flag alone.
C29_FlagOnlyAfterFirstSync ==
    [][FlagRises =>
         /\ \E k \in 1..Len(cycle_log') :
               cycle_log'[k].call = "add_to_notion" /\ cycle_log'[k].first
         /\ \E k \in 1..Len(cycle_log') :
               cycle_log'[k].call = "fetch" /\ cycle_log'[k].ok]_vars

\* a cycle starts in this step
CycleStarts == cycle_pc \in {"idle", "done"} /\ cycle_pc' = "started"

C30_State ==
    cycle_first_sync_complete =>
        \A k \in CallsOf("add_to_notion") : ~cycle_log[k].first

C30_Step ==
    /\ first_sync_complete => first_sync_complete'
    /\ (CycleStarts /\ first_sync_complete) => cycle_first_sync_complete'

\* C30: over the cycles of a wrapper first_sync_complete never goes back from
\* true to false, and a cycle started once it is true calls add_to_notion
\* with is_first_sync = false, the mode in which no content block is deleted.
C30_FirstSyncOnlyOnce == [](C30_State) /\ [][C30_Step]_vars

\* C30 witness: the second cycle, started with the flag set, ran add_to_notion
\* on fetched assignments
C30_Witness ==
    /\ cycles = 2
    /\ cycle_pc = "done"
    /\ cycle_first_sync_complete
    /\ \E k \in CallsOf("add_to_notion") : cycle_log[k].ok /\ cycle_log[k].writes

====
